---- MODULE Spec2Model ----
(***************************************************************************)
(* Verification model of the synesthetic instrument core: the Note Hub,   *)
(* the Chord Capturer and mergeEditOne, the octave mapper, the hub-driven *)
(* arpeggiator and its gate, the envelope scheduler, the voice pool, the  *)
(* keyboard source and the visual engine's mode blend.  Each component    *)
(* has its own specification over the shared variables; a specification   *)
(* leaves the variables of the other components at their initial values.  *)
(***************************************************************************)
EXTENDS Integers, Sequences, FiniteSets, TLC

VARIABLES
  \* ---- NoteHub (src/engine/input/noteHub.ts) ----
  byMidi,      \* Map<midi, record>: midi -> id of the record object
  recs,        \* the record objects reachable from the hub or a snapshot
  listeners,   \* Set<Listener>, in insertion order
  snap,        \* the NoteSnapshot last returned by snapshot(now), or NoSnap
  \* ---- observers of the hub (history variables) ----
  holders,     \* midi -> sources that called noteOn and not since noteOff
  regAt,       \* listener -> rank of its registration among the subscribed
               \* listeners (0: not subscribed)
  lastCall,    \* the last noteOn/noteOff call, whether its pitch was held
               \* and the registration ranks when it was made
  lastDeliv,   \* the deliveries that call made, in order
  snapTaken,   \* the content of snap when it was constructed
  calls,       \* number of hub calls made so far (also the timestamp t)
  \* ---- ChordCapturer (src/audio/dsp/chordCapture.ts) ----
  ccTimer,     \* this.timer != null
  ccStartMs,   \* this.startMs
  ccEvents,    \* this.events: sequence of [midi, tms]
  ccClock,     \* index into ClockPoints of performance.now()
  ccResult,    \* what finalize() returned, if called since the window's
               \* events last changed, else NoResult
  \* ---- mergeEditOne (src/audio/dsp/chordCapture.ts) ----
  mPrev,       \* argument prevOrder
  mHeld,       \* argument currentlyHeld
  mAdd,        \* argument additions
  mOut,        \* whether it was called, and the value returned
  \* ---- octave state (src/util/notes.ts) ----
  octaveOffset,
  baseCMidi,
  octEvent,    \* detail.octave of the last 'octavechange' event, or NoEvent
  lastMidi,    \* what the last codeToMidi(code) returned
  fromZero,    \* consecutive incOctave calls since the offset was 0 (-1: none)
  \* ---- ArpFromHub (src/audio/dsp/seq/arpCommon.ts) ----
  arp,         \* the fields of the arpeggiator and of its ChordCapturer
  clock,       \* index into ArpClock of gate.now() / performance.now()
  \* ---- envelope of one voice (src/audio/dsp/voicePool.ts) ----
  envGain,     \* the events scheduled on env.gain, in time order
  envDown,     \* the voice's key is down
  envAdsr,     \* the ADSR object of app.ts
  envSplice,   \* the splice made by the last handler, if it was an attack
  envClock,    \* index into EnvClock of ctx.currentTime
  \* ---- applyPattern (src/audio/dsp/seq/arpCommon.ts) ----
  patBase,     \* argument base
  patPattern,  \* argument pattern
  patOut,      \* whether it was called, and the value returned
  \* ---- VisualEngine (src/engine/visualEngine.ts) ----
  visCurrent,  \* this.currentMode
  visTarget,   \* this.targetMode
  visBlend,    \* this.blend
  visRender,   \* the draw calls of the last frame
  visUpdates,  \* the controllers the last frame called update on, in order
  visRun,      \* the run of frames since the target last changed
  \* ---- VoicePool (src/audio/dsp/voicePool.ts) ----
  voicesByCode, \* Map<string, Voice>
  voicesByMidi, \* Map<number, Voice>
  currentType,  \* oscillator type of new voices
  poolLog,      \* the envelope functions the last call invoked, in order
  poolLast,     \* the last call and the maps it found
  \* ---- keyboard source (src/input/keyboard.ts, attachKeyboardToHub) ----
  downCodes,      \* Set<string> of pressed physical keys
  codeToMidiDown, \* Map<code, midi> of the notes turned on
  kbdAttached,    \* the listeners are registered
  kbdSeen,        \* code -> type of the last hub event emitted for it
  kbdLog,         \* the hub events the last handler emitted, in order
  kbdLast,        \* the last DOM event and the state it found
  \* ---- the gate of the arpeggiator (history variable) ----
  gateNotes,      \* the notes issued to the gate whose noteOff time is to come
  \* ---- step length and note duration (arpCommon.ts) ----
  durIn,          \* sync, bpm, div, rateHz, gate
  durOut,         \* the step length and the note duration computed from them
  chain,            \* the targets last set on the chain's AudioParams
  liveEnv,          \* env, the ADSR object the envelope schedulers read
  arpEnabled,       \* the passthrough flag of the mount
  currentParams,    \* the cache, for the keys update() reads back from it
  setLast,          \* the last setParams call: its patch and what it found
  stepBase,         \* the base notes of the order followed step by step
  stepArp,          \* the arpeggiator stepping through that order
  stepPlayed,       \* the notes its steps have started, in order
  kbdOnMidi,        \* per key code, the pitch of the noteOn last sent for it
  againLast,        \* the last action as a finalizing tick, and the order it found
  loopIn,           \* the parameters and the lateness of one scheduler tick
  loopOut           \* the number of steps its loop triggered

hubVars == <<byMidi, recs, listeners, snap, holders, regAt, lastCall, lastDeliv,
             snapTaken, calls>>

chordVars == <<ccTimer, ccStartMs, ccEvents, ccClock, ccResult>>

mergeVars == <<mPrev, mHeld, mAdd, mOut>>

octVars == <<octaveOffset, baseCMidi, octEvent, lastMidi, fromZero>>

arpVars == <<arp, clock>>

envVars == <<envGain, envDown, envAdsr, envSplice, envClock>>

patVars == <<patBase, patPattern, patOut>>

visVars == <<visCurrent, visTarget, visBlend, visRender, visUpdates, visRun>>

poolVars == <<voicesByCode, voicesByMidi, currentType, poolLog, poolLast>>

kbdVars == <<downCodes, codeToMidiDown, kbdAttached, kbdSeen, kbdLog, kbdLast>>

gateVars == <<gateNotes>>

durVars == <<durIn, durOut>>

mountVars == <<chain, liveEnv, arpEnabled, currentParams>>

parVars == <<setLast>>

stepVars == <<stepBase, stepArp, stepPlayed>>

keyVars == <<kbdOnMidi>>

againVars == <<againLast>>

loopVars == <<loopIn, loopOut>>

vars == <<hubVars, chordVars, mergeVars, octVars, arpVars, envVars, patVars, visVars, poolVars, kbdVars, gateVars, durVars, mountVars, parVars, stepVars, keyVars, againVars, loopVars>>

\* what each component's actions leave unchanged
notHub == <<chordVars, mergeVars, octVars, arpVars, envVars, patVars, visVars, poolVars, kbdVars, gateVars, durVars, mountVars, parVars, stepVars, keyVars, againVars, loopVars>>

notChord == <<hubVars, mergeVars, octVars, arpVars, envVars, patVars, visVars, poolVars, kbdVars, gateVars, durVars, mountVars, parVars, stepVars, keyVars, againVars, loopVars>>

notMerge == <<hubVars, chordVars, octVars, arpVars, envVars, patVars, visVars, poolVars, kbdVars, gateVars, durVars, mountVars, parVars, stepVars, keyVars, againVars, loopVars>>

notOct == <<hubVars, chordVars, mergeVars, arpVars, envVars, patVars, visVars, poolVars, kbdVars, gateVars, durVars, mountVars, parVars, stepVars, keyVars, againVars, loopVars>>

notArp == <<chordVars, mergeVars, octVars, envVars, patVars, visVars, poolVars, kbdVars, gateVars, durVars, mountVars, parVars, stepVars, keyVars, againVars, loopVars>>

notEnv == <<hubVars, chordVars, mergeVars, octVars, arpVars, patVars, visVars, poolVars, kbdVars, gateVars, durVars, mountVars, parVars, stepVars, keyVars, againVars, loopVars>>

notPat == <<hubVars, chordVars, mergeVars, octVars, arpVars, envVars, visVars, poolVars, kbdVars, gateVars, durVars, mountVars, parVars, stepVars, keyVars, againVars, loopVars>>

notVis == <<hubVars, chordVars, mergeVars, octVars, arpVars, envVars, patVars, poolVars, kbdVars, gateVars, durVars, mountVars, parVars, stepVars, keyVars, againVars, loopVars>>

notPool == <<hubVars, chordVars, mergeVars, octVars, arpVars, envVars, patVars, visVars, kbdVars, gateVars, durVars, mountVars, parVars, stepVars, keyVars, againVars, loopVars>>

notKbd == <<chordVars, mergeVars, arpVars, envVars, patVars, visVars, poolVars, gateVars, durVars, mountVars, parVars, stepVars, keyVars, againVars, loopVars>>

notKey == <<chordVars, mergeVars, arpVars, envVars, patVars, visVars, poolVars, gateVars, durVars, mountVars, parVars, stepVars, againVars, loopVars>>

notGate == <<chordVars, mergeVars, octVars, envVars, patVars, visVars, poolVars, kbdVars, durVars, mountVars, parVars, stepVars, keyVars, againVars, loopVars>>

notDur == <<hubVars, chordVars, mergeVars, octVars, arpVars, envVars, patVars, visVars, poolVars, kbdVars, gateVars, mountVars, parVars, stepVars, keyVars, againVars, loopVars>>

notMount == <<chordVars, mergeVars, arpVars, envVars, patVars, visVars, gateVars, durVars, parVars, stepVars, keyVars, againVars, loopVars>>

notPar == <<chordVars, mergeVars, octVars, envVars, patVars, visVars, poolVars, kbdVars, gateVars, durVars, mountVars, stepVars, keyVars, againVars, loopVars>>

notStep == <<hubVars, chordVars, mergeVars, octVars, arpVars, envVars, patVars, visVars, poolVars, kbdVars, gateVars, durVars, mountVars, parVars, keyVars, againVars, loopVars>>

notAgain == <<chordVars, mergeVars, octVars, envVars, patVars, visVars, poolVars, kbdVars, gateVars, durVars, mountVars, parVars, stepVars, keyVars, loopVars>>

notLoop == <<hubVars, chordVars, mergeVars, octVars, arpVars, envVars, patVars, visVars, poolVars, kbdVars, gateVars, durVars, mountVars, parVars, stepVars, keyVars, againVars>>


\* ------------------------------------------------------------------ bounds

MaxAccMs == 2000    \* cap of the recorded time of a run of frames (ms)
MaxCalls == 4
MaxEvents == 4      \* events pushed into one capture window
MaxPrev == 3        \* length of mergeEditOne's prevOrder
MaxAdd == 2         \* length of mergeEditOne's additions
MaxIncRun == 11     \* longest run of incOctave calls that is counted
MaxPatches == 2     \* setParams calls in one run
MaxShift == 1       \* octaves the keyboard source shifts away from 0
MaxSteps == 9       \* steps followed through one order
MaxBase == 4        \* length of applyPattern's base

\* ------------------------------------------------------------ small helpers
Range(s) == {s[i] : i \in DOMAIN s}

SetMax(S) == CHOOSE x \in S : \A y \in S : y <= x

SetMin(S) == CHOOSE x \in S : \A y \in S : x <= y

RECURSIVE SeqFilterIn(_, _)
\* Array.prototype.filter(m => S.has(m))
SeqFilterIn(s, S) ==
  IF s = <<>> THEN <<>>
  ELSE IF Head(s) \in S THEN <<Head(s)>> \o SeqFilterIn(Tail(s), S)
       ELSE SeqFilterIn(Tail(s), S)

RECURSIVE SortedSeq(_)
\* Array.from(set).sort((a, b) => a - b)
SortedSeq(S) ==
  IF S = {} THEN <<>> ELSE <<SetMin(S)>> \o SortedSeq(S \ {SetMin(S)})

NoDup(s) == \A i, j \in DOMAIN s : i # j => s[i] # s[j]

\* ================================================================ NoteHub
Midi == {60, 64}
Sources == {"kbd", "ui"}
Listeners == {"L1", "L2"}
Velocity == 9          \* velocity 0.9, in tenths
NoSnap == [none |-> TRUE]
NoCall == [type |-> "none"]

\* A new object identity: the least id no reachable record uses.
FreshId(used) == SetMin((1 .. (Cardinality(used) + 1)) \ used)

\* The records a hub map or a snapshot map still references.
Reachable(bm, sn) ==
  {bm[m] : m \in DOMAIN bm}
    \cup (IF sn = NoSnap THEN {} ELSE {sn.byMidi[m] : m \in DOMAIN sn.byMidi})

Collect(rs, bm, sn) == [i \in (DOMAIN rs) \cap Reachable(bm, sn) |-> rs[i]]

\* noteOn, lines 13-15: create the record or add the source to its set.
HubOnRecs(bm, rs, midi, velocity, t, src) ==
  IF midi \in DOMAIN bm
  THEN [rs EXCEPT ![bm[midi]].sources = @ \cup {src}]
  ELSE rs @@ (FreshId(DOMAIN rs) :>
                [velocity |-> velocity, tOn |-> t, sources |-> {src}])

HubOnMap(bm, rs, midi) ==
  IF midi \in DOMAIN bm THEN bm ELSE bm @@ (midi :> FreshId(DOMAIN rs))

\* noteOff, lines 21-25: delete the source; delete the record when
\* its set is empty.
HubOffRecs(bm, rs, midi, src) ==
  IF midi \in DOMAIN bm
  THEN [rs EXCEPT ![bm[midi]].sources = @ \ {src}]
  ELSE rs

HubOffMapKeepEmpty(bm, rs, midi, src) == bm

HubOffMap(bm, rs, midi, src) ==
  IF midi \in DOMAIN bm /\ HubOffRecs(bm, rs, midi, src)[bm[midi]].sources = {}
  THEN [m \in (DOMAIN bm) \ {midi} |-> bm[m]]
  ELSE bm

\* listeners.add(fn) / listeners.delete(fn) on an insertion-ordered Set.
SetAdd(ls, l) == IF l \in Range(ls) THEN ls ELSE Append(ls, l)

SetDelete(ls, l) == SelectSeq(ls, LAMBDA x : x # l)

RECURSIVE ForEachReversed(_, _)
ForEachReversed(ls, ev) ==
  IF ls = <<>> THEN <<>>
  ELSE ForEachReversed(Tail(ls), ev) \o <<[to |-> Head(ls), ev |-> ev]>>

RECURSIVE ForEachListener(_, _)
\* this.listeners.forEach(fn => fn(ev)): one call per listener, in
\* insertion order.
ForEachListener(ls, ev) ==
  IF ls = <<>> THEN <<>>
  ELSE <<[to |-> Head(ls), ev |-> ev]>> \o ForEachListener(Tail(ls), ev)

\* snapshot(now), lines 31-34: held copies every record (with a new Set of
\* its sources) and sorts by midi; byMidi is new Map(this.byMidi), whose
\* values are the hub's own record objects.
SnapshotHeld(bm, rs) ==
  LET ms == SortedSeq(DOMAIN bm)
  IN [i \in 1 .. Len(ms) |->
        [midi |-> ms[i], velocity |-> rs[bm[ms[i]]].velocity,
         tOn |-> rs[bm[ms[i]]].tOn, sources |-> rs[bm[ms[i]]].sources]]

SnapshotOf(bm, rs, now) ==
  [held |-> SnapshotHeld(bm, rs), byMidi |-> bm, t |-> now]

\* What a reader of a snapshot sees: its held list and, for every key of
\* its byMidi map, the fields of the record object stored there.
SnapView(sn, rs) ==
  [held |-> sn.held,
   byMidi |-> [m \in DOMAIN sn.byMidi |-> rs[sn.byMidi[m]]],
   t |-> sn.t]

EmptyMap == [m \in {} |-> 0]

InitHub ==
  /\ byMidi = EmptyMap
  /\ recs = EmptyMap
  /\ listeners = <<>>
  /\ snap = NoSnap
  /\ holders = [m \in Midi |-> {}]
  /\ regAt = [l \in Listeners |-> 0]
  /\ lastCall = NoCall
  /\ lastDeliv = <<>>
  /\ snapTaken = NoSnap
  /\ calls = 0

NextStamp == 1 + SetMax({regAt[l] : l \in Listeners})

\* on(fn)
On(l) ==
  /\ listeners' = SetAdd(listeners, l)
  /\ regAt' = IF regAt[l] = 0 THEN [regAt EXCEPT ![l] = NextStamp] ELSE regAt
  /\ UNCHANGED <<byMidi, recs, snap, holders, lastCall, lastDeliv, snapTaken, calls>>

\* the function on(fn) returned
Unsubscribe(l) ==
  /\ l \in Range(listeners)
  /\ listeners' = SetDelete(listeners, l)
  /\ regAt' = [x \in Listeners |->
                IF x = l \/ regAt[x] = 0 THEN 0
                ELSE Cardinality({y \in Listeners \ {l} :
                                    regAt[y] > 0 /\ regAt[y] <= regAt[x]})]
  /\ UNCHANGED <<byMidi, recs, snap, holders, lastCall, lastDeliv, snapTaken, calls>>

NoteOn(midi, src) ==
  /\ calls < MaxCalls
  /\ calls' = calls + 1
  /\ LET t == calls + 1
         ev == [type |-> "noteon", midi |-> midi, velocity |-> Velocity,
                t |-> t, src |-> src]
         bm2 == HubOnMap(byMidi, recs, midi)
         rs2 == HubOnRecs(byMidi, recs, midi, Velocity, t, src)
     IN /\ byMidi' = bm2
        /\ recs' = Collect(rs2, bm2, snap)
        /\ lastDeliv' = ForEachListener(listeners, ev)
        /\ lastCall' = [type |-> "noteon", ev |-> ev,
                        held |-> midi \in DOMAIN byMidi, reg |-> regAt]
  /\ holders' = [holders EXCEPT ![midi] = @ \cup {src}]
  /\ UNCHANGED <<listeners, snap, regAt, snapTaken>>

NoteOff(midi, src) ==
  /\ calls < MaxCalls
  /\ calls' = calls + 1
  /\ LET t == calls + 1
         ev == [type |-> "noteoff", midi |-> midi, t |-> t, src |-> src]
         bm2 == HubOffMap(byMidi, recs, midi, src)
         rs2 == HubOffRecs(byMidi, recs, midi, src)
     IN /\ byMidi' = bm2
        /\ recs' = Collect(rs2, bm2, snap)
        /\ lastDeliv' = ForEachListener(listeners, ev)
        /\ lastCall' = [type |-> "noteoff", ev |-> ev,
                        held |-> midi \in DOMAIN byMidi, reg |-> regAt]
  /\ holders' = [holders EXCEPT ![midi] = @ \ {src}]
  /\ UNCHANGED <<listeners, snap, regAt, snapTaken>>

TakeSnapshot ==
  /\ snap' = SnapshotOf(byMidi, recs, calls)
  /\ snapTaken' = SnapView(snap', recs)
  /\ recs' = Collect(recs, byMidi, snap')
  /\ UNCHANGED <<byMidi, listeners, holders, regAt, lastCall, lastDeliv, calls>>

NextHub ==
  \/ \E l \in Listeners : On(l) /\ UNCHANGED notHub
  \/ \E l \in Listeners : Unsubscribe(l) /\ UNCHANGED notHub
  \/ \E m \in Midi, s \in Sources : NoteOn(m, s) /\ UNCHANGED notHub
  \/ \E m \in Midi, s \in Sources : NoteOff(m, s) /\ UNCHANGED notHub
  \/ TakeSnapshot /\ UNCHANGED notHub

\* ========================================================== ChordCapturer
CAPTURE_MS == 90
GROUP_MS == 20
ChordMidi == {60, 64, 67, 72}
\* the instants of performance.now() at which calls are made
ClockPoints == <<0, 5, 22, 41, 95>>
NoResult == [none |-> TRUE]

CcNow == ClockPoints[ccClock]

RECURSIVE SortNum(_)
\* arr.sort((a, z) => a - z) on an array that may repeat values
SortNum(s) ==
  IF s = <<>> THEN <<>>
  ELSE LET lo == SetMin(Range(s))
           k == SetMin({i \in DOMAIN s : s[i] = lo})
       IN <<lo>> \o SortNum(SubSeq(s, 1, k - 1) \o SubSeq(s, k + 1, Len(s)))

\* Math.floor((e.tms - this.startMs) / this.groupMs)
BucketOf(tms, startMs, groupMs) == (tms - startMs) \div groupMs

RECURSIVE BucketsOf(_, _, _)
\* lines 108-114: Map<bucket, midi[]>, each array in push order
BucketsOf(events, startMs, groupMs) ==
  IF events = <<>> THEN EmptyMap
  ELSE LET rest == BucketsOf(SubSeq(events, 1, Len(events) - 1), startMs, groupMs)
           e == events[Len(events)]
           b == BucketOf(e.tms, startMs, groupMs)
       IN IF b \in DOMAIN rest
          THEN [rest EXCEPT ![b] = Append(@, e.midi)]
          ELSE rest @@ (b :> <<e.midi>>)

RECURSIVE DedupeKeepFirst(_, _)
\* if (!seen.has(m)) { seen.add(m); ordered.push(m) }
DedupeKeepFirst(s, seen) ==
  IF s = <<>> THEN <<>>
  ELSE IF Head(s) \in seen THEN DedupeKeepFirst(Tail(s), seen)
       ELSE <<Head(s)>> \o DedupeKeepFirst(Tail(s), seen \cup {Head(s)})

RECURSIVE ConcatSorted(_, _)
\* the buckets' arrays, each sorted ascending, in the order of keys
ConcatSorted(keys, buckets) ==
  IF keys = <<>> THEN <<>>
  ELSE SortNum(buckets[Head(keys)]) \o ConcatSorted(Tail(keys), buckets)

RECURSIVE ConcatUnsorted(_, _)
ConcatUnsorted(keys, buckets) ==
  IF keys = <<>> THEN <<>>
  ELSE buckets[Head(keys)] \o ConcatUnsorted(Tail(keys), buckets)

FinalizePushOrder(events, startMs, groupMs) ==
  LET buckets == BucketsOf(events, startMs, groupMs)
  IN DedupeKeepFirst(ConcatUnsorted(SortedSeq(DOMAIN buckets), buckets), {})

\* finalize(), lines 106-123
Finalize(events, startMs, groupMs) ==
  IF Len(events) = 0 THEN <<>>
  ELSE LET buckets == BucketsOf(events, startMs, groupMs)
       IN DedupeKeepFirst(ConcatSorted(SortedSeq(DOMAIN buckets), buckets), {})

IdleChord ==
  /\ ccTimer = FALSE
  /\ ccStartMs = 0
  /\ ccEvents = <<>>
  /\ ccClock = 1
  /\ ccResult = NoResult

\* begin(nowMs): cancel(), clear the events, start the window timer
CcBegin ==
  /\ ccTimer' = TRUE
  /\ ccEvents' = <<>>
  /\ ccStartMs' = CcNow
  /\ ccResult' = NoResult
  /\ UNCHANGED ccClock

\* push(midi, tms), called with tms = performance.now()
CcPush(midi) ==
  /\ Len(ccEvents) < MaxEvents
  /\ ccEvents' = Append(ccEvents, [midi |-> midi, tms |-> CcNow])
  /\ ccResult' = NoResult
  /\ UNCHANGED <<ccTimer, ccStartMs, ccClock>>

CcFinalize ==
  /\ ccResult' = [out |-> Finalize(ccEvents, ccStartMs, GROUP_MS)]
  /\ UNCHANGED <<ccTimer, ccStartMs, ccEvents, ccClock>>

\* cancel()
CcCancel ==
  /\ ccTimer' = FALSE
  /\ UNCHANGED <<ccStartMs, ccEvents, ccClock, ccResult>>

\* the window's setTimeout callback: this.timer = null
CcTimeout ==
  /\ ccTimer
  /\ CcNow >= ccStartMs + CAPTURE_MS
  /\ ccTimer' = FALSE
  /\ UNCHANGED <<ccStartMs, ccEvents, ccClock, ccResult>>

\* time passes
CcAdvance ==
  /\ ccClock < Len(ClockPoints)
  /\ ccClock' = ccClock + 1
  /\ UNCHANGED <<ccTimer, ccStartMs, ccEvents, ccResult>>

NextChord ==
  \/ CcBegin /\ UNCHANGED notChord
  \/ \E m \in ChordMidi : CcPush(m) /\ UNCHANGED notChord
  \/ CcFinalize /\ UNCHANGED notChord
  \/ CcCancel /\ UNCHANGED notChord
  \/ CcTimeout /\ UNCHANGED notChord
  \/ CcAdvance /\ UNCHANGED notChord

\* =========================================================== mergeEditOne
MergeMidi == {60, 64, 65, 67}
NotCalled == [called |-> FALSE, out |-> <<>>]

SeqsUpTo(S, n) == UNION {[1 .. k -> S] : k \in 0 .. n}

\* lines 135-136: the slots of prevOrder whose pitch is no longer held
RemovedSlots(prevOrder, currentlyHeld) ==
  LET idx == SortedSeq({i \in DOMAIN prevOrder : prevOrder[i] \notin currentlyHeld})
  IN [k \in DOMAIN idx |-> [idx |-> idx[k], midi |-> prevOrder[idx[k]]]]

Dist(a, b) == IF a >= b THEN a - b ELSE b - a

\* lines 142-147: the first unused slot at the least pitch distance, or 0
BestSlot(m, removed, used) ==
  LET free == (DOMAIN removed) \ used
  IN IF free = {} THEN 0
     ELSE LET d == SetMin({Dist(m, removed[i].midi) : i \in free})
          IN SetMin({i \in free : Dist(m, removed[i].midi) = d})

RECURSIVE Assign(_, _, _, _)
\* lines 139-149: greedy nearest-pitch assignment, slot index -> midi
Assign(add, removed, used, assigned) ==
  IF add = <<>> THEN assigned
  ELSE LET best == BestSlot(Head(add), removed, used)
       IN IF best > 0
          THEN Assign(Tail(add), removed, used \cup {best},
                      (removed[best].idx :> Head(add)) @@ assigned)
          ELSE Assign(Tail(add), removed, used, assigned)

RECURSIVE Rebuild(_, _, _, _)
\* lines 153-158
Rebuild(prevOrder, i, keptSet, assigned) ==
  IF i > Len(prevOrder) THEN <<>>
  ELSE (IF prevOrder[i] \in keptSet THEN <<prevOrder[i]>>
        ELSE IF i \in DOMAIN assigned THEN <<assigned[i]>>
        ELSE <<>>) \o Rebuild(prevOrder, i + 1, keptSet, assigned)

MergeParts(prevOrder, currentlyHeld, additions) ==
  LET kept == SeqFilterIn(prevOrder, currentlyHeld)
      add == SeqFilterIn(additions, currentlyHeld \ Range(kept))
      removed == RemovedSlots(prevOrder, currentlyHeld)
      assigned == Assign(add, removed, {}, EmptyMap)
      next == Rebuild(prevOrder, 1, Range(kept), assigned)
      assignedNotes == {assigned[i] : i \in DOMAIN assigned}
  IN [kept |-> kept, add |-> add,
      next |-> next \o SeqFilterIn(add, Range(add) \ assignedNotes)]

MergeNoFinalFilter(prevOrder, currentlyHeld, additions) ==
  MergeParts(prevOrder, currentlyHeld, additions).next

MergeAppendOnly(prevOrder, currentlyHeld, additions) ==
  LET p == MergeParts(prevOrder, currentlyHeld, additions)
  IN DedupeKeepFirst(p.kept \o p.add, {})

\* mergeEditOne, lines 130-167
MergeEditOne(prevOrder, currentlyHeld, additions) ==
  DedupeKeepFirst(
    SeqFilterIn(MergeParts(prevOrder, currentlyHeld, additions).next, currentlyHeld),
    {})

IdleMerge ==
  /\ mPrev = <<>>
  /\ mHeld = {}
  /\ mAdd = <<>>
  /\ mOut = NotCalled

InitMerge ==
  /\ mPrev \in SeqsUpTo(MergeMidi, MaxPrev)
  /\ mHeld \in SUBSET MergeMidi
  /\ mAdd \in SeqsUpTo(MergeMidi, MaxAdd)
  /\ mOut = NotCalled

CallMerge ==
  /\ mOut = NotCalled
  /\ mOut' = [called |-> TRUE, out |-> MergeEditOne(mPrev, mHeld, mAdd)]
  /\ UNCHANGED <<mPrev, mHeld, mAdd>>

\* ============================================================ octave state
OCT_LO == -4
OCT_HI == 4
BaseCs == {48, 60}
Semitones == {0, 4, 19}         \* KeyA, KeyD, Enter of DEFAULT_BINDINGS
OctArgs == -6 .. 6
NoEvent == [none |-> TRUE]
Unmapped == [none |-> TRUE]

Max2(a, b) == IF a >= b THEN a ELSE b

Min2(a, b) == IF a <= b THEN a ELSE b

ClampLowOnly(x, lo, hi) == Max2(lo, x)

\* clamp = (x, lo, hi) => Math.max(lo, Math.min(hi, x))
Clamp(x, lo, hi) == Max2(lo, Min2(hi, x))

IdleOct ==
  /\ octaveOffset = 0
  /\ baseCMidi = 60
  /\ octEvent = NoEvent
  /\ lastMidi = Unmapped
  /\ fromZero = 0

\* setOctaveOffset(n): clamp, then emitOctave()
SetOct(n, isInc) ==
  /\ octaveOffset' = Clamp(n, OCT_LO, OCT_HI)
  /\ octEvent' = [octave |-> octaveOffset']
  /\ fromZero' = IF octaveOffset' = 0 THEN 0
                 ELSE IF isInc /\ fromZero >= 0 /\ fromZero < MaxIncRun
                      THEN fromZero + 1
                      ELSE -1
  /\ UNCHANGED <<baseCMidi, lastMidi>>

SetOctaveOffset(n) == SetOct(n, FALSE)

IncOctave == SetOct(octaveOffset + 1, TRUE)

DecOctave == SetOct(octaveOffset - 1, FALSE)

\* setBaseCMidi(midiC)
SetBaseCMidi(c) ==
  /\ baseCMidi' = c
  /\ UNCHANGED <<octaveOffset, octEvent, lastMidi, fromZero>>

\* codeToMidi(code) for a bound code of the given semitone
CodeToMidi(semitone) ==
  /\ lastMidi' = [midi |-> baseCMidi + octaveOffset * 12 + semitone]
  /\ UNCHANGED <<octaveOffset, baseCMidi, octEvent, fromZero>>

NextOct ==
  \/ \E n \in OctArgs : SetOctaveOffset(n) /\ UNCHANGED notOct
  \/ IncOctave /\ UNCHANGED notOct
  \/ DecOctave /\ UNCHANGED notOct
  \/ \E c \in BaseCs : SetBaseCMidi(c) /\ UNCHANGED notOct
  \/ \E st \in Semitones : CodeToMidi(st) /\ UNCHANGED notOct

\* ============================================================ arpeggiator
\* Times are in milliseconds; gate.now() and performance.now() read the
\* same clock.
LOOKAHEAD_MS == 80
INTERVAL_MS == 25
PANIC_MS == 1            \* gate.now() + 0.001
MIN_DUR_MS == 8
MIN_GAP_MS == 12
GATE_PCT == 60           \* params.gate = 0.6
\* the instants of the clock at which calls are made
ArpClock == <<0, 30, 95>>
ArpSources == {"kbd"}
Patterns == {"up", "updown", "random", "chord"}
OctaveCounts == {1, 2}
\* sync/bpm/div/rateHz settings: 125 ms and 50 ms steps
Timings == {[sync |-> TRUE, bpm |-> 120, div |-> 4, rateHz |-> 8],
            [sync |-> FALSE, bpm |-> 120, div |-> 4, rateHz |-> 20]}
DefaultTiming == [sync |-> TRUE, bpm |-> 120, div |-> 4, rateHz |-> 8]

Now == ArpClock[clock]

\* stepLengthSec, in ms; div is the denominator n of '1/n'
\* (DIV_TO_BEATS['1/n'] = 1/n)
StepLengthMs(t) ==
  IF t.sync THEN (60000 \div t.bpm) \div t.div
  ELSE 1000 \div Max2(1, t.rateHz)

RECURSIVE Reverse(_)
Reverse(s) == IF s = <<>> THEN <<>> ELSE Reverse(Tail(s)) \o <<Head(s)>>

\* one draw of (Math.random() * (i + 1)) | 0 for every i
RndChoices(n) == {f \in [1 .. n -> 0 .. n] : \A i \in 1 .. n : f[i] <= i}

NoRnd == [i \in 1 .. 0 |-> 0]

Swap(a, i, j) == [a EXCEPT ![i] = a[j], ![j] = a[i]]

RECURSIVE ShuffleFrom(_, _, _)
\* shuffle: for (i = a.length - 1; i > 0; i--) swap a[i], a[j], j in 0..i
\* (0-based i is position i + 1 here); rnd[i] is reduced into 0..i
ShuffleFrom(a, i, rnd) ==
  IF i <= 0 THEN a
  ELSE LET j == IF i \in DOMAIN rnd THEN rnd[i] % (i + 1) ELSE 0
       IN ShuffleFrom(Swap(a, i + 1, j + 1), i - 1, rnd)

Shuffle(a, rnd) == ShuffleFrom(a, Len(a) - 1, rnd)

ApplyPatternRepeatEnds(base, pattern, rnd) ==
  IF pattern = "updown" THEN base \o Reverse(base) ELSE base

\* applyPattern
ApplyPattern(base, pattern, rnd) ==
  IF Len(base) = 0 THEN <<>>
  ELSE CASE pattern = "up" -> base
         [] pattern = "down" -> Reverse(base)
         [] pattern = "updown" ->
              IF Len(base) = 1 THEN base
              ELSE base \o Reverse(SubSeq(base, 2, Len(base) - 1))
         [] pattern = "random" -> Shuffle(base, rnd)
         [] pattern = "chord" -> base
         [] OTHER -> base

RECURSIVE ExpandFrom(_, _, _)
ExpandFrom(notes, k, o) ==
  IF k >= o THEN <<>>
  ELSE [i \in DOMAIN notes |-> notes[i] + 12 * k] \o ExpandFrom(notes, k + 1, o)

\* expandOctaves
ExpandOctaves(notes, octaves) == ExpandFrom(notes, 0, Max2(1, octaves))

GateOn(midi, when) == [type |-> "on", midi |-> midi, when |-> when]

GateOff(midi, when) == [type |-> "off", midi |-> midi, when |-> when]

OffAll(notes, when) == [i \in DOMAIN notes |-> GateOff(notes[i], when)]

OnAll(notes, when) == [i \in DOMAIN notes |-> GateOn(notes[i], when)]

RebuildKeepIndex(a, held, rnd) ==
  LET base == IF a.hold /\ a.latched # <<>> THEN SortedSeq(Range(a.latched))
              ELSE SortedSeq(held)
  IN [a EXCEPT !.order = ApplyPattern(ExpandOctaves(base, a.octaves),
                                      a.pattern, rnd)]

\* rebuildFromSnapshot; held is the set of pitches of hub.snapshot().held
RebuildFromSnapshot(a, held, rnd) ==
  LET base == IF a.hold
              THEN (IF a.latched # <<>> THEN SortedSeq(Range(a.latched))
                    ELSE SortedSeq(held))
              ELSE SortedSeq(held)
      ord == ApplyPattern(ExpandOctaves(base, a.octaves), a.pattern, rnd)
  IN [a EXCEPT !.order = ord,
               !.stepIdx = IF a.stepIdx >= Len(ord) THEN 0 ELSE a.stepIdx]

\* an applyRecorded that takes the recorded notes as they are
ApplyRecordedAsPlayed(a, held, recorded, rnd) ==
  IF a.hold
  THEN LET kept == SeqFilterIn(a.latched, held)
           additions == SeqFilterIn(recorded, Range(recorded) \ Range(kept))
           nextLatched == kept \o additions
       IN [a EXCEPT !.latched = DedupeKeepFirst(nextLatched, {}),
                    !.order = ApplyPattern(ExpandOctaves(nextLatched, a.octaves),
                                           a.pattern, rnd),
                    !.stepIdx = 0, !.dir = 1]
  ELSE LET base == IF Len(recorded) > 0 THEN recorded ELSE SortedSeq(held)
       IN [a EXCEPT !.order = ApplyPattern(ExpandOctaves(base, a.octaves),
                                           a.pattern, rnd),
                    !.stepIdx = 0, !.dir = 1]

\* applyRecorded
ApplyRecorded(a, held, recorded, rnd) ==
  IF a.hold
  THEN LET kept == SeqFilterIn(a.latched, held)
           additions == SeqFilterIn(recorded, Range(recorded) \ Range(kept))
           nextLatched == kept \o additions
       IN [a EXCEPT !.latched = DedupeKeepFirst(nextLatched, {}),
                    !.order = ApplyPattern(ExpandOctaves(nextLatched, a.octaves),
                                           a.pattern, rnd),
                    !.stepIdx = 0, !.dir = 1]
  ELSE LET merged == MergeEditOne(a.order, held, recorded)
           base == IF Len(merged) > 0 THEN merged ELSE SortedSeq(held)
       IN [a EXCEPT !.order = ApplyPattern(ExpandOctaves(base, a.octaves),
                                           a.pattern, rnd),
                    !.stepIdx = 0, !.dir = 1]

\* a retime that restarts the schedule from the clock
RetimeFromNow(a, now) == [a EXCEPT !.nextStepTime = now + PANIC_MS]

\* retime
Retime(a, now) ==
  [a EXCEPT !.nextStepTime = Max2(Max2(now, a.nextStepTime), now + PANIC_MS)]

EnsureRunningKeepTimer(a, capActive, now) ==
  LET need == a.on /\ (Len(a.order) > 0 \/ capActive)
  IN IF need /\ ~a.timer
     THEN [a EXCEPT !.nextStepTime = Max2(now, a.nextStepTime),
                    !.timer = TRUE, !.timerDue = now + INTERVAL_MS]
     ELSE a

\* ensureRunning
EnsureRunning(a, capActive, now) ==
  LET need == a.on /\ (Len(a.order) > 0 \/ capActive)
  IN IF need /\ ~a.timer
     THEN [a EXCEPT !.nextStepTime = Max2(now, a.nextStepTime),
                    !.timer = TRUE, !.timerDue = now + INTERVAL_MS]
     ELSE IF ~need /\ a.timer
          THEN [a EXCEPT !.timer = FALSE, !.timerDue = 0]
          ELSE a

\* a triggerStep whose chord switches off only the first note of the order
TriggerStepChordFirstOff(a, when) ==
  IF Len(a.order) = 0 THEN a
  ELSE LET stepDur == StepLengthMs(a.timing)
           dur == Max2(MIN_DUR_MS,
                       Min2((stepDur * GATE_PCT) \div 100, stepDur - MIN_GAP_MS))
       IN IF a.pattern = "chord"
          THEN [a EXCEPT !.log = @ \o OnAll(a.order, when)
                                   \o <<GateOff(a.order[1], when + dur)>>,
                         !.stepped = TRUE]
          ELSE LET m == a.order[(a.stepIdx % Len(a.order)) + 1]
                   b == [a EXCEPT !.log = @ \o <<GateOn(m, when),
                                                 GateOff(m, when + dur)>>,
                                  !.stepped = TRUE]
               IN IF a.pattern = "updown" /\ Len(a.order) > 1
                  THEN LET d == IF a.dir = 1 /\ a.stepIdx >= Len(a.order) - 1
                                THEN -1
                                ELSE IF a.dir = -1 /\ a.stepIdx <= 0 THEN 1
                                ELSE a.dir
                       IN [b EXCEPT !.dir = d, !.stepIdx = a.stepIdx + d]
                  ELSE [b EXCEPT !.stepIdx = (a.stepIdx + 1) % Len(a.order)]

\* triggerStep
TriggerStep(a, when) ==
  IF Len(a.order) = 0 THEN a
  ELSE LET stepDur == StepLengthMs(a.timing)
           dur == Max2(MIN_DUR_MS,
                       Min2((stepDur * GATE_PCT) \div 100, stepDur - MIN_GAP_MS))
       IN IF a.pattern = "chord"
          THEN [a EXCEPT !.log = @ \o OnAll(a.order, when)
                                   \o OffAll(a.order, when + dur),
                         !.stepped = TRUE]
          ELSE LET m == a.order[(a.stepIdx % Len(a.order)) + 1]
                   b == [a EXCEPT !.log = @ \o <<GateOn(m, when),
                                                 GateOff(m, when + dur)>>,
                                  !.stepped = TRUE]
               IN IF a.pattern = "updown" /\ Len(a.order) > 1
                  THEN LET d == IF a.dir = 1 /\ a.stepIdx >= Len(a.order) - 1
                                THEN -1
                                ELSE IF a.dir = -1 /\ a.stepIdx <= 0 THEN 1
                                ELSE a.dir
                       IN [b EXCEPT !.dir = d, !.stepIdx = a.stepIdx + d]
                  ELSE [b EXCEPT !.stepIdx = (a.stepIdx + 1) % Len(a.order)]

RECURSIVE StepsUntil(_, _)
\* the while loop of schedulerTick
StepsUntil(a, ahead) ==
  IF a.nextStepTime < ahead
  THEN LET b == TriggerStep(a, a.nextStepTime)
       IN StepsUntil([b EXCEPT !.nextStepTime = @ + StepLengthMs(b.timing)], ahead)
  ELSE a

PanicAllKeepSnapshotNotes(a, held, gnow) ==
  LET now == gnow + PANIC_MS
  IN [a EXCEPT !.log = @ \o OffAll(a.order, now)
                         \o OffAll(ExpandOctaves(a.latched, a.octaves), now),
               !.order = <<>>, !.latched = <<>>, !.stepIdx = 0, !.dir = 1,
               !.nextStepTime = now, !.panicAt = now]

\* panicAll; held is the set of pitches of hub.snapshot(now).held
PanicAll(a, held, gnow) ==
  LET now == gnow + PANIC_MS
  IN [a EXCEPT !.log = @ \o OffAll(a.order, now)
                         \o OffAll(ExpandOctaves(a.latched, a.octaves), now)
                         \o OffAll(SortedSeq(held), now),
               !.order = <<>>, !.latched = <<>>, !.stepIdx = 0, !.dir = 1,
               !.nextStepTime = now, !.panicAt = now]

\* finalizeCaptureIfAny
FinalizeCaptureIfAny(a, held, rnd) ==
  IF ~a.capTimer THEN a
  ELSE ApplyRecorded(a, held, Finalize(a.capEvents, a.capStartMs, GROUP_MS), rnd)

\* a schedulerTick that triggers at most one step
SchedulerTickOneStep(a, held, now, rnd) ==
  LET b == FinalizeCaptureIfAny(a, held, rnd)
  IN IF b.nextStepTime < now + LOOKAHEAD_MS
     THEN [TriggerStep(b, b.nextStepTime) EXCEPT !.nextStepTime = @ + StepLengthMs(b.timing)]
     ELSE b

\* schedulerTick
SchedulerTick(a, held, now, rnd) ==
  StepsUntil(FinalizeCaptureIfAny(a, held, rnd), now + LOOKAHEAD_MS)

\* the draws of Math.random() a call may need
MaxShuffle == Cardinality(Midi) * SetMax(OctaveCounts) - 1

\* The draws that matter to a handler run on a: those below the length of
\* the longest array it can shuffle.
RndFor(a, held) ==
  LET pitches == held \cup Range(a.latched)
                   \cup {a.capEvents[i].midi : i \in DOMAIN a.capEvents}
      n == Cardinality(pitches) * Max2(1, a.octaves)
  IN IF a.pattern = "random"
     THEN {f \in RndChoices(MaxShuffle) : \A i \in 1 .. MaxShuffle : i >= n => f[i] = 0}
     ELSE {NoRnd}

Absent == <<>>

Assigned(old, opt) == IF opt = Absent THEN old ELSE opt[1]

NoPatch ==
  [on |-> Absent, hold |-> Absent, pattern |-> Absent, octaves |-> Absent,
   timing |-> Absent]

\* Partial<ArpParams> with one key: a key is absent or carries a value; sync,
\* bpm, div and rateHz are passed together
OneKey ==
  {[NoPatch EXCEPT !.on = <<v>>] : v \in BOOLEAN}
    \cup {[NoPatch EXCEPT !.hold = <<v>>] : v \in BOOLEAN}
    \cup {[NoPatch EXCEPT !.pattern = <<v>>] : v \in Patterns}
    \cup {[NoPatch EXCEPT !.octaves = <<v>>] : v \in OctaveCounts}
    \cup {[NoPatch EXCEPT !.timing = <<v>>] : v \in Timings}

\* what app.ts update() passes after one control changed: every key, from
\* its cache of the controls' values, and octaves: 1
AppPatch(a, p) ==
  [on |-> <<Assigned(a.on, p.on)>>, hold |-> <<Assigned(a.hold, p.hold)>>,
   pattern |-> <<Assigned(a.pattern, p.pattern)>>, octaves |-> <<1>>,
   timing |-> <<Assigned(a.timing, p.timing)>>]

Patches(a) == OneKey \cup {AppPatch(a, p) : p \in OneKey}

\* Object.assign(this.params, p)
AssignParams(a, p) ==
  [a EXCEPT !.on = Assigned(@, p.on), !.hold = Assigned(@, p.hold),
            !.pattern = Assigned(@, p.pattern),
            !.octaves = Assigned(@, p.octaves),
            !.timing = Assigned(@, p.timing)]

\* new ArpFromHub(gate, hub, { captureMs: 90, groupMs: 20 })
NewArp ==
  [on |-> FALSE, hold |-> FALSE, pattern |-> "up", octaves |-> 1,
   timing |-> DefaultTiming,
   latched |-> <<>>, order |-> <<>>, stepIdx |-> 0, dir |-> 1,
   timer |-> FALSE, timerDue |-> 0, nextStepTime |-> 0,
   capTimer |-> FALSE, capStartMs |-> 0, capEvents |-> <<>>,
   disposed |-> FALSE,
   log |-> <<>>,          \* the gate calls of the last handler run
   panicAt |-> -1,        \* time given to the noteOffs if that run panicked
   stepped |-> FALSE,     \* a step has sounded since on was last set true
   patches |-> 0]         \* setParams calls so far

IdleArp ==
  /\ arp = NewArp
  /\ clock = 1

\* app.ts mount: the hub, then the arpeggiator, whose constructor
\* registers its listener with hub.on
InitArp ==
  /\ byMidi = EmptyMap
  /\ recs = EmptyMap
  /\ listeners = <<"arp">>
  /\ snap = NoSnap
  /\ holders = [m \in Midi |-> {}]
  /\ regAt = [l \in Listeners |-> 0]
  /\ lastCall = NoCall
  /\ lastDeliv = <<>>
  /\ snapTaken = NoSnap
  /\ calls = 0
  /\ arp = NewArp
  /\ clock = 1

HeldPitches(bm) == DOMAIN bm

Fresh(a) == [a EXCEPT !.log = <<>>, !.panicAt = -1]

\* the listener of lines 416-429, for a 'noteon' event
OnHubNoteOn(a, midi, now) ==
  LET b == IF ~a.capTimer
           THEN [a EXCEPT !.capTimer = TRUE, !.capEvents = <<>>,
                          !.capStartMs = now]
           ELSE a
      c == [b EXCEPT !.capEvents = Append(@, [midi |-> midi, tms |-> now])]
  IN EnsureRunning(c, c.capTimer, now)

\* the listener, for a 'noteoff' event
OnHubNoteOff(a, held, rnd) ==
  IF ~a.hold THEN RebuildFromSnapshot(a, held, rnd) ELSE a

\* a key goes down: hub.noteOn(midi, velocity, now, src), delivered to the
\* arpeggiator while it listens; a key is pressed once in a capture window
ArpKeyOn(midi, src) ==
  /\ src \notin holders[midi]
  /\ arp.capTimer => \A i \in DOMAIN arp.capEvents : arp.capEvents[i].midi # midi
  /\ byMidi' = HubOnMap(byMidi, recs, midi)
  /\ recs' = Collect(HubOnRecs(byMidi, recs, midi, Velocity, Now, src),
                     byMidi', snap)
  /\ holders' = [holders EXCEPT ![midi] = @ \cup {src}]
  /\ arp' = IF "arp" \notin Range(listeners) THEN Fresh(arp)
            ELSE OnHubNoteOn(Fresh(arp), midi, Now)
  /\ UNCHANGED <<listeners, snap, regAt, lastCall, lastDeliv, snapTaken,
                 calls, clock>>

\* a key goes up: hub.noteOff(midi, now, src)
ArpKeyOff(midi, src) ==
  /\ src \in holders[midi]
  /\ byMidi' = HubOffMap(byMidi, recs, midi, src)
  /\ recs' = Collect(HubOffRecs(byMidi, recs, midi, src), byMidi', snap)
  /\ holders' = [holders EXCEPT ![midi] = @ \ {src}]
  /\ \E rnd \in RndFor(arp, HeldPitches(byMidi')) :
       arp' = IF "arp" \notin Range(listeners) THEN Fresh(arp)
              ELSE OnHubNoteOff(Fresh(arp), HeldPitches(byMidi'), rnd)
  /\ UNCHANGED <<listeners, snap, regAt, lastCall, lastDeliv, snapTaken,
                 calls, clock>>

\* a setParams that rebuilds on hold = false without clearing the latch
SetParamsKeepLatch(a, p, held, now, rnd) ==
  LET wasOn == a.on
      a1 == AssignParams(a, p)
      a2 == IF wasOn /\ p.on = <<FALSE>>
            THEN PanicAll(a1, held, now) ELSE a1
      a3 == IF p.timing # Absent THEN Retime(a2, now) ELSE a2
      a4 == IF p.pattern # Absent \/ p.octaves # Absent
            THEN RebuildFromSnapshot(a3, held, rnd) ELSE a3
      a5 == IF p.hold = <<FALSE>>
            THEN [a4 EXCEPT !.order = ApplyPattern(ExpandOctaves(SortedSeq(Range(a4.latched) \cup held), a4.octaves), a4.pattern, rnd)]
            ELSE a4
      a6 == EnsureRunning(a5, a5.capTimer, now)
  IN [a6 EXCEPT !.stepped = IF a6.on /\ ~wasOn THEN FALSE ELSE @,
                !.patches = @ + 1]

\* setParams(p)
SetParams(a, p, held, now, rnd) ==
  LET wasOn == a.on
      a1 == AssignParams(a, p)
      a2 == IF wasOn /\ p.on = <<FALSE>>
            THEN PanicAll(a1, held, now) ELSE a1
      a3 == IF p.timing # Absent THEN Retime(a2, now) ELSE a2
      a4 == IF p.pattern # Absent \/ p.octaves # Absent
            THEN RebuildFromSnapshot(a3, held, rnd) ELSE a3
      a5 == IF p.hold = <<FALSE>>
            THEN RebuildFromSnapshot([a4 EXCEPT !.latched = <<>>], held, rnd)
            ELSE a4
      a6 == EnsureRunning(a5, a5.capTimer, now)
  IN [a6 EXCEPT !.stepped = IF a6.on /\ ~wasOn THEN FALSE ELSE @,
                !.patches = @ + 1]

ArpSetParams(p) ==
  /\ ~arp.disposed
  /\ arp.patches < MaxPatches
  /\ \E rnd \in RndFor(AssignParams(arp, p), HeldPitches(byMidi)) :
       arp' = SetParams(Fresh(arp), p, HeldPitches(byMidi), Now, rnd)
  /\ UNCHANGED <<hubVars, clock>>

\* the interval timer of line 534 fires
ArpTick ==
  /\ arp.timer
  /\ Now >= arp.timerDue
  /\ \E rnd \in RndFor(arp, HeldPitches(byMidi)) :
       arp' = [SchedulerTick(Fresh(arp), HeldPitches(byMidi), Now, rnd)
                 EXCEPT !.timerDue = @ + INTERVAL_MS
                                       * (((Now - @) \div INTERVAL_MS) + 1)]
  /\ UNCHANGED <<hubVars, clock>>

\* the capture window's setTimeout callback: this.timer = null
ArpCaptureTimeout ==
  /\ arp.capTimer
  /\ Now >= arp.capStartMs + CAPTURE_MS
  /\ arp' = [Fresh(arp) EXCEPT !.capTimer = FALSE]
  /\ UNCHANGED <<hubVars, clock>>

\* dispose(); it may be called again on a disposed arpeggiator
ArpDispose ==
  /\ arp' = [PanicAll(Fresh(arp), HeldPitches(byMidi), Now)
               EXCEPT !.timer = FALSE, !.timerDue = 0, !.disposed = TRUE]
  /\ listeners' = SetDelete(listeners, "arp")
  /\ UNCHANGED <<byMidi, recs, snap, holders, regAt, lastCall, lastDeliv,
                 snapTaken, calls, clock>>

\* time passes
ArpAdvance ==
  /\ clock < Len(ArpClock)
  /\ clock' = clock + 1
  /\ arp' = Fresh(arp)
  /\ UNCHANGED hubVars

NextArp ==
  \/ \E m \in Midi, s \in ArpSources : ArpKeyOn(m, s) /\ UNCHANGED notArp
  \/ \E m \in Midi, s \in ArpSources : ArpKeyOff(m, s) /\ UNCHANGED notArp
  \/ \E p \in Patches(arp) : ArpSetParams(p) /\ UNCHANGED notArp
  \/ ArpTick /\ UNCHANGED notArp
  \/ ArpCaptureTimeout /\ UNCHANGED notArp
  \/ ArpDispose /\ UNCHANGED notArp
  \/ ArpAdvance /\ UNCHANGED notArp

\* =============================================================== envelope
\* One voice's gain AudioParam.  Times are in milliseconds, gain values in
\* units of 1e-4 (GAIN_ONE is 1.0).
GAIN_ONE == 10000
MIN_A == 3
MIN_D == 3
MIN_R == 15
FLOOR == 5               \* 0.0005
START_FLOOR == 10        \* 0.001
SAFE_TAU_US == 5000      \* 0.02 / 4 s, in microseconds
SAFE_TIDY_MS == 1000     \* t0 + 1.0
ALLOFF_MS == 1           \* ctx.currentTime + 0.001
FIXED_ONE == 100 * 100    \* 1.0 in the fixed point of the decay factors
\* the instants of ctx.currentTime at which calls are made
EnvClock == <<0, 5, 90, 100, 120>>
\* defaultADSR, and what app.ts update() writes with the envelope switched
\* off (env.A = 0; env.D = 0; env.S = 1; env.R = 0); A, D, R in ms
DefaultADSR == [A |-> 10, D |-> 100, S |-> 7000, R |-> 300]
Adsrs == {DefaultADSR, [A |-> 0, D |-> 0, S |-> GAIN_ONE, R |-> 0], [A |-> 1, D |-> 2, S |-> 7000, R |-> 12]}
\* the negligible step: the floor an attack may start from
SpliceEps == START_FLOOR
NoSplice == [called |-> FALSE, inFlight |-> FALSE, before |-> 0, start |-> 0]

EnvNow == EnvClock[envClock]

\* exp(-1 ms / tau) in fixed point, for the time constants a / 4, d / 4,
\* r / 4 of the envelopes above and for safeRelease's 0.02 / 4
DecayPerMs(tauUs) ==
  CASE tauUs = 750 -> 2636
    [] tauUs = 2500 -> 6703
    [] tauUs = 3750 -> 7659
    [] tauUs = 5000 -> 8187
    [] tauUs = 25000 -> 9608
    [] tauUs = 75000 -> 9868

RECURSIVE DecayOver(_, _)
\* exp(-dt / tau)
DecayOver(tauUs, dt) ==
  IF dt <= 0 THEN FIXED_ONE
  ELSE LET h == DecayOver(tauUs, dt \div 2)
           sq == (h * h) \div FIXED_ONE
       IN IF dt % 2 = 0 THEN sq ELSE (sq * DecayPerMs(tauUs)) \div FIXED_ONE

Abs(x) == IF x < 0 THEN -x ELSE x

\* setTargetAtTime: v(t) = target + (v0 - target) * exp(-(t - t0) / tau)
Approach(v0, target, tauUs, dt) ==
  IF v0 >= target
  THEN target + ((v0 - target) * DecayOver(tauUs, dt)) \div FIXED_ONE
  ELSE target - ((target - v0) * DecayOver(tauUs, dt)) \div FIXED_ONE

SetValueAtTime(v, t) == [kind |-> "set", v |-> v, t |-> t, tauUs |-> 0]

SetTargetAtTime(target, t, tauUs) ==
  [kind |-> "target", v |-> target, t |-> t, tauUs |-> tauUs]

RECURSIVE ValueAt(_, _)
\* The param's value at time t: what its last event at or before t gives.
\* A new GainNode(ctx, { gain: 0.0 }) has the value 0 until its first event.
ValueAt(tl, t) ==
  IF tl = <<>> THEN 0
  ELSE LET e == tl[Len(tl)]
           before == SubSeq(tl, 1, Len(tl) - 1)
       IN IF e.t > t THEN ValueAt(before, t)
          ELSE IF e.kind = "set" THEN e.v
          ELSE Approach(ValueAt(before, e.t), e.v, e.tauUs, t - e.t)

EventsBefore(tl, t) == SelectSeq(tl, LAMBDA e : e.t < t)

\* a setTarget ramp is running at t, the time of the cancellation
RampInFlight(tl, t) ==
  LET kept == EventsBefore(tl, t)
  IN kept # <<>> /\ kept[Len(kept)].kind = "target"

\* p.cancelAndHoldAtTime(Math.max(0, t0 - EPS)): the events from t0 - EPS
\* on are removed; a ramp running then is held at the value it has there.
\* EPS is 0.1 ms, below the clock's resolution: the hold is written at t0,
\* before the events a caller then schedules at t0.
CancelAndHoldAtTime(tl, t0) ==
  LET kept == EventsBefore(tl, t0)
  IN IF RampInFlight(tl, t0)
     THEN Append(kept, SetValueAtTime(ValueAt(kept, t0), t0))
     ELSE kept

\* scheduleAttackDecay(env, t0, { A, D, S }), called at time now: p.value is
\* the param's value at the time of the call
ScheduleAttackDecay(tl, now, t0, adsr) ==
  LET a == Max2(MIN_A, adsr.A)
      d == Max2(MIN_D, adsr.D)
      s == Min2(GAIN_ONE, Max2(0, adsr.S))
      held == CancelAndHoldAtTime(tl, t0)
      start == Max2(START_FLOOR, ValueAt(tl, now))
  IN held \o <<SetValueAtTime(start, t0),
               SetTargetAtTime(GAIN_ONE, t0, a * 250),
               SetTargetAtTime(Max2(FLOOR, s), t0 + a, d * 250)>>

\* a scheduleRelease that clamps the release to the attack's floor
ScheduleReleaseShortFloor(tl, now, t0, adsr) ==
  LET r == Max2(MIN_A, adsr.R)
      held == CancelAndHoldAtTime(tl, t0)
      cur == Max2(FLOOR, ValueAt(tl, now))
  IN held \o <<SetValueAtTime(cur, t0), SetTargetAtTime(FLOOR, t0, r * 250)>>

\* scheduleRelease(env, t0, { R })
ScheduleRelease(tl, now, t0, adsr) ==
  LET r == Max2(MIN_R, adsr.R)
      held == CancelAndHoldAtTime(tl, t0)
      cur == Max2(FLOOR, ValueAt(tl, now))
  IN held \o <<SetValueAtTime(cur, t0), SetTargetAtTime(FLOOR, t0, r * 250)>>

\* safeRelease(env, t0)
SafeRelease(tl, now, t0) ==
  LET held == CancelAndHoldAtTime(tl, t0)
  IN held \o <<SetValueAtTime(Max2(FLOOR, ValueAt(tl, now)), t0),
               SetTargetAtTime(FLOOR, t0, SAFE_TAU_US),
               SetValueAtTime(0, t0 + SAFE_TIDY_MS)>>

IdleEnv ==
  /\ envGain = <<>>
  /\ envDown = FALSE
  /\ envAdsr = DefaultADSR
  /\ envSplice = NoSplice
  /\ envClock = 1

\* app.ts onCodeDown with the arpeggiator off: pool.noteOn(code, t0, attack)
\* with t0 = ctx.currentTime + arp.lookahead; the keyboard reports a key
\* down once until it goes up
EnvKeyDown ==
  /\ ~envDown
  /\ envDown' = TRUE
  /\ LET t0 == EnvNow + LOOKAHEAD_MS
         next == ScheduleAttackDecay(envGain, EnvNow, t0, envAdsr)
     IN /\ envGain' = next
        /\ envSplice' = [called |-> TRUE,
                         inFlight |-> RampInFlight(envGain, t0),
                         before |-> ValueAt(EventsBefore(envGain, t0), t0),
                         start |-> ValueAt(next, t0)]
  /\ UNCHANGED <<envAdsr, envClock>>

\* app.ts onCodeUp: pool.noteOff(code, t0, release), which cancels and holds
\* and then calls scheduleRelease
EnvKeyUp ==
  /\ envDown
  /\ envDown' = FALSE
  /\ LET t0 == EnvNow + LOOKAHEAD_MS
     IN envGain' = ScheduleRelease(CancelAndHoldAtTime(envGain, t0),
                                   EnvNow, t0, envAdsr)
  /\ envSplice' = NoSplice
  /\ UNCHANGED <<envAdsr, envClock>>

\* pool.allOff(ctx.currentTime + 0.001)
EnvAllOff ==
  /\ envGain # <<>>
  /\ envDown' = FALSE
  /\ envGain' = SafeRelease(envGain, EnvNow, EnvNow + ALLOFF_MS)
  /\ envSplice' = NoSplice
  /\ UNCHANGED <<envAdsr, envClock>>

\* app.ts update(): env.A, env.D, env.S, env.R follow the controls
EnvSetAdsr(adsr) ==
  /\ envAdsr' = adsr
  /\ envSplice' = NoSplice
  /\ UNCHANGED <<envGain, envDown, envClock>>

\* time passes
EnvAdvance ==
  /\ envClock < Len(EnvClock)
  /\ envClock' = envClock + 1
  /\ envSplice' = NoSplice
  /\ UNCHANGED <<envGain, envDown, envAdsr>>

NextEnv ==
  \/ EnvKeyDown /\ UNCHANGED notEnv
  \/ EnvKeyUp /\ UNCHANGED notEnv
  \/ EnvAllOff /\ UNCHANGED notEnv
  \/ \E adsr \in Adsrs : EnvSetAdsr(adsr) /\ UNCHANGED notEnv
  \/ EnvAdvance /\ UNCHANGED notEnv

\* ============================================================ applyPattern
\* applyPattern(base, pattern) on its own, for every array over PatMidi of
\* at most MaxBase notes
PatMidi == {60, 64, 67}
AllPatterns == {"up", "down", "updown", "random", "chord"}

IdlePat ==
  /\ patBase = <<>>
  /\ patPattern = "up"
  /\ patOut = NotCalled

InitPat ==
  /\ patBase \in SeqsUpTo(PatMidi, MaxBase)
  /\ patPattern \in AllPatterns
  /\ patOut = NotCalled

CallPattern ==
  /\ patOut = NotCalled
  /\ \E rnd \in (IF patPattern = "random" THEN RndChoices(MaxShuffle) ELSE {NoRnd}) :
       patOut' = [called |-> TRUE, out |-> ApplyPattern(patBase, patPattern, rnd)]
  /\ UNCHANGED <<patBase, patPattern>>

\* ============================================================ VisualEngine
\* Times are in milliseconds; the blend progress is an integer number of
\* 1/BLEND_ONE parts, a scale at which dt / morphSpeed is exact for every
\* input below.

BLEND_ONE == 3 * 1000

MIN_DT_MS == 1

MIN_MORPH_MS == 50

DEFAULT_MODE == "circleLine"

\* values of params['vis.mode']; ensureController builds a CircleLine for any
\* id other than 'boids', one controller per id
Modes == {"circleLine", "boids", "conway"}

FrameDts == {250, 500}

MorphSpeeds == {0, 1000, 1500}

\* the draw calls of one frame: controller id and globalAlpha (in BLEND_ONE parts)
Draw(mode, alpha) == [mode |-> mode, alpha |-> alpha]

RenderOf(current, target, blend) ==
  IF current = target
    THEN <<Draw(current, BLEND_ONE)>>
    ELSE <<Draw(current, BLEND_ONE - blend), Draw(target, blend)>>

\* A.update(pkt); B.update(pkt), with A and B the controllers
\* ensureController returns for currentMode and targetMode: one per mode id
UpdatesOf(current, target) == <<current, target>>

\* the blend update of frame(): currentMode and blend after the frame
BlendStep(current, target, blend, dt, morphSpeed) ==
  IF current # target
    THEN LET b == Min2(BLEND_ONE, blend + (dt * BLEND_ONE) \div morphSpeed)
         IN IF b >= BLEND_ONE
              THEN [current |-> target, blend |-> 0]
              ELSE [current |-> current, blend |-> b]
    ELSE [current |-> current, blend |-> blend]

IdleVis ==
  /\ visCurrent = DEFAULT_MODE
  /\ visTarget = DEFAULT_MODE
  /\ visBlend = 0
  /\ visRender = <<>>
  /\ visUpdates = <<>>
  /\ visRun = [set |-> FALSE, fixed |-> FALSE, acc |-> 0, dt |-> 0, morph |-> 0]

\* frame({params: {'vis.mode': mode, 'morph.speed': morphIn}, dt: dtIn}).
\* visRun records the run of frames since the target last changed: whether
\* they all had the same dt and morph speed, and their accumulated time.
VisFrame(mode, dtIn, morphIn) ==
  LET dt == Max2(MIN_DT_MS, dtIn)
      morphSpeed == Max2(MIN_MORPH_MS, morphIn)
      st == BlendStep(visCurrent, mode, visBlend, dt, morphSpeed)
  IN /\ visTarget' = mode
     /\ visCurrent' = st.current
     /\ visBlend' = st.blend
     /\ visRender' = RenderOf(st.current, mode, st.blend)
     /\ visUpdates' = UpdatesOf(st.current, mode)
     /\ visRun' =
          IF mode # visTarget
            THEN [set |-> TRUE, fixed |-> TRUE, acc |-> dt, dt |-> dt, morph |-> morphSpeed]
          ELSE IF visRun.fixed /\ dt = visRun.dt /\ morphSpeed = visRun.morph
            THEN [visRun EXCEPT !.acc = Min2(MaxAccMs, visRun.acc + dt)]
          ELSE [visRun EXCEPT !.fixed = FALSE]

Frame == \E mode \in Modes, dtIn \in FrameDts, morphIn \in MorphSpeeds : VisFrame(mode, dtIn, morphIn)

\* =============================================================== VoicePool
\* A Map is a sequence of entries in insertion order; a voice entry carries
\* its key, its down flag, the pitch its oscillator was last glided to and
\* the oscillator type.

\* bindings of DEFAULT_BINDINGS used here: code -> semitone
Binding == [KeyA |-> 0, KeyD |-> 4, KeyK |-> 12]

\* codeToMidi(code): <<midi>>, or <<>> for undefined
MidiOfCode(code) ==
  IF code \in DOMAIN Binding
    THEN <<baseCMidi + octaveOffset * 12 + Binding[code]>>
    ELSE <<>>

PoolCodes == {"KeyA", "KeyD", "KeyZ"}      \* KeyZ has no binding

PoolMidi == {60, 64}

OscTypes == {"sine", "square"}

Has(map, key) == \E i \in DOMAIN map : map[i].key = key

Get(map, key) == map[CHOOSE i \in DOMAIN map : map[i].key = key]

IsDown(map, key) == Has(map, key) /\ Get(map, key).down

\* an entry with this key replaced by f(entry)
Update(map, key, f(_)) ==
  [i \in DOMAIN map |-> IF map[i].key = key THEN f(map[i]) ELSE map[i]]

\* createVoice()
CreateVoice(key, type) == [key |-> key, down |-> FALSE, midi |-> 0, type |-> type]

\* one invocation of an envelope function on a voice's gain node
EnvCall(fn, ns, code, midi) == [fn |-> fn, ns |-> ns, code |-> code, midi |-> midi]

Pool(bc, bm, log) == [byCode |-> bc, byMidi |-> bm, log |-> log]

\* v.down = true; setFreqWithGlide(v.osc, midiToHz(midi), t0)
Press(map, key, midi) ==
  Update(map, key, LAMBDA v : [v EXCEPT !.down = TRUE, !.midi = midi])

Lift(map, key) == Update(map, key, LAMBDA v : [v EXCEPT !.down = FALSE])

\* noteOn(code, t0, attack)
PoolNoteOn(bc, bm, type, code) ==
  IF MidiOfCode(code) = <<>> THEN Pool(bc, bm, <<>>)
  ELSE LET made == IF Has(bc, code) THEN bc ELSE Append(bc, CreateVoice(code, type))
       IN Pool(Press(made, code, MidiOfCode(code)[1]), bm,
               <<EnvCall("attack", "code", code, 0)>>)

\* a noteOff that also lifts the MIDI-indexed voice of the same pitch
PoolNoteOffByPitch(bc, bm, code) ==
  IF ~Has(bc, code) THEN Pool(bc, bm, <<>>)
  ELSE Pool(Lift(bc, code), Lift(bm, Get(bc, code).midi),
            <<EnvCall("release", "code", code, 0)>>)

\* noteOff(code, t0, release)
PoolNoteOff(bc, bm, code) ==
  IF ~Has(bc, code) THEN Pool(bc, bm, <<>>)
  ELSE Pool(Lift(bc, code), bm, <<EnvCall("release", "code", code, 0)>>)

\* noteOnMidi(midi, t0, velocity, attack)
PoolNoteOnMidi(bc, bm, type, midi) ==
  LET made == IF Has(bm, midi) THEN bm ELSE Append(bm, CreateVoice(midi, type))
  IN Pool(bc, Press(made, midi, midi), <<EnvCall("attack", "midi", "", midi)>>)

\* noteOffMidi(midi, t0, release?)
PoolNoteOffMidi(bc, bm, midi, hasRelease) ==
  IF ~Has(bm, midi) THEN Pool(bc, bm, <<>>)
  ELSE Pool(bc, Lift(bm, midi),
            IF hasRelease THEN <<EnvCall("release", "midi", "", midi)>> ELSE <<>>)

\* allOff(t0): every voice up and safeRelease'd, code voices first
PoolAllOff(bc, bm) ==
  Pool([i \in DOMAIN bc |-> [bc[i] EXCEPT !.down = FALSE]],
       [i \in DOMAIN bm |-> [bm[i] EXCEPT !.down = FALSE]],
       [i \in DOMAIN bc |-> EnvCall("safeRelease", "code", bc[i].key, 0)]
         \o [i \in DOMAIN bm |-> EnvCall("safeRelease", "midi", "", bm[i].key)])

\* the call last made on the pool and the maps it found
NoPoolCall == [op |-> "none", code |-> "", midi |-> 0, byCode |-> <<>>, byMidi |-> <<>>]

PoolCall(op, code, midi) ==
  [op |-> op, code |-> code, midi |-> midi, byCode |-> voicesByCode, byMidi |-> voicesByMidi]

IdlePool ==
  /\ voicesByCode = <<>>
  /\ voicesByMidi = <<>>
  /\ currentType = "sine"
  /\ poolLog = <<>>
  /\ poolLast = NoPoolCall

Becomes(p) ==
  /\ voicesByCode' = p.byCode
  /\ voicesByMidi' = p.byMidi
  /\ poolLog' = p.log
  /\ UNCHANGED currentType

VoiceNoteOn(code) ==
  /\ Becomes(PoolNoteOn(voicesByCode, voicesByMidi, currentType, code))
  /\ poolLast' = PoolCall("noteOn", code, 0)

VoiceNoteOff(code) ==
  /\ Becomes(PoolNoteOff(voicesByCode, voicesByMidi, code))
  /\ poolLast' = PoolCall("noteOff", code, 0)

VoiceNoteOnMidi(midi) ==
  /\ Becomes(PoolNoteOnMidi(voicesByCode, voicesByMidi, currentType, midi))
  /\ poolLast' = PoolCall("noteOnMidi", "", midi)

VoiceNoteOffMidi(midi, hasRelease) ==
  /\ Becomes(PoolNoteOffMidi(voicesByCode, voicesByMidi, midi, hasRelease))
  /\ poolLast' = PoolCall("noteOffMidi", "", midi)

VoiceAllOff ==
  /\ Becomes(PoolAllOff(voicesByCode, voicesByMidi))
  /\ poolLast' = PoolCall("allOff", "", 0)

\* setOscType(type)
SetOscType(type) ==
  /\ currentType' = type
  /\ voicesByCode' = [i \in DOMAIN voicesByCode |-> [voicesByCode[i] EXCEPT !.type = type]]
  /\ voicesByMidi' = [i \in DOMAIN voicesByMidi |-> [voicesByMidi[i] EXCEPT !.type = type]]
  /\ poolLog' = <<>>
  /\ poolLast' = PoolCall("setOscType", "", 0)

\* dispose(): every oscillator stopped and disconnected, both maps cleared
PoolDispose ==
  /\ Becomes(Pool(<<>>, <<>>, <<>>))
  /\ poolLast' = PoolCall("dispose", "", 0)

NextPool ==
  \/ \E c \in PoolCodes : VoiceNoteOn(c) /\ UNCHANGED notPool
  \/ \E c \in PoolCodes : VoiceNoteOff(c) /\ UNCHANGED notPool
  \/ \E m \in PoolMidi : VoiceNoteOnMidi(m) /\ UNCHANGED notPool
  \/ \E m \in PoolMidi, r \in BOOLEAN : VoiceNoteOffMidi(m, r) /\ UNCHANGED notPool
  \/ VoiceAllOff /\ UNCHANGED notPool
  \/ \E t \in OscTypes : SetOscType(t) /\ UNCHANGED notPool
  \/ PoolDispose /\ UNCHANGED notPool

\* ========================================================= keyboard source
\* attachKeyboardToHub (src/input/keyboard.ts) on a hub that a second source
\* ("ui") also plays.  ctx.currentTime is not advanced here, and the hub has
\* no listener; only the hub's map and records are followed.

KBD == "kbd"

CtxTime == 0

OCTAVE_DOWN_CODES == {"Digit1"}

OCTAVE_UP_CODES == {"Digit2"}

\* ev.code of the keyboard events fed in; KeyZ has no binding
KbdCodes == {"KeyA", "KeyK", "KeyZ", "Digit1", "Digit2", "Escape"}

UiMidi == {72}

HubEv(type, midi, src, code) == [type |-> type, midi |-> midi, src |-> src, code |-> code]

\* hub.noteOn / hub.noteOff on the hub's map and records
HubCall(h, ev) ==
  IF ev.type = "noteon"
    THEN LET bm2 == HubOnMap(h.bm, h.rs, ev.midi)
         IN [bm |-> bm2,
             rs |-> Collect(HubOnRecs(h.bm, h.rs, ev.midi, Velocity, CtxTime, ev.src), bm2, NoSnap)]
    ELSE LET bm2 == HubOffMap(h.bm, h.rs, ev.midi, ev.src)
         IN [bm |-> bm2,
             rs |-> Collect(HubOffRecs(h.bm, h.rs, ev.midi, ev.src), bm2, NoSnap)]

RECURSIVE HubCalls(_, _)
HubCalls(h, evs) ==
  IF evs = <<>> THEN h ELSE HubCalls(HubCall(h, Head(evs)), Tail(evs))

\* the last event type emitted for each code, after these events
RECURSIVE SeenAfter(_, _)
SeenAfter(seen, evs) ==
  IF evs = <<>> THEN seen
  ELSE SeenAfter([seen EXCEPT ![Head(evs).code] = Head(evs).type], Tail(evs))

\* the events of one handler, each with the type of the event last emitted
\* for its code before the handler ran
Emitted(seen, evs) ==
  [i \in DOMAIN evs |-> [ev |-> evs[i], prev |-> SeenAfter(seen, SubSeq(evs, 1, i - 1))[evs[i].code]]]

\* the state of the source: downCodes, codeToMidiDown (entries [key, midi]
\* in insertion order) and the hub events a handler emitted
Kbd(down, ctm, evs) == [down |-> down, ctm |-> ctm, evs |-> evs]

\* allUp that forgets the keys without telling the hub
AllUpSilent(down, ctm) == Kbd({}, <<>>, <<>>)

\* allUp
AllUp(down, ctm) ==
  Kbd({}, <<>>, [i \in DOMAIN ctm |-> HubEv("noteoff", ctm[i].midi, KBD, ctm[i].key)])

\* a keydown listener that does not look at downCodes for a musical key
KeyDownNoDedup(down, ctm, code, repeat, editable) ==
  IF editable THEN Kbd(down, ctm, <<>>)
  ELSE IF code \in OCTAVE_DOWN_CODES \cup OCTAVE_UP_CODES THEN Kbd(down \cup {code}, ctm, <<>>)
  ELSE IF repeat \/ MidiOfCode(code) = <<>> THEN Kbd(down, ctm, <<>>)
  ELSE Kbd(down \cup {code},
           IF Has(ctm, code)
             THEN Update(ctm, code, LAMBDA e : [e EXCEPT !.midi = MidiOfCode(code)[1]])
             ELSE Append(ctm, [key |-> code, midi |-> MidiOfCode(code)[1]]),
           <<HubEv("noteon", MidiOfCode(code)[1], KBD, code)>>)

\* keydown listener, the octave change apart
KeyDown(down, ctm, code, repeat, editable) ==
  IF editable THEN Kbd(down, ctm, <<>>)
  ELSE IF code \in OCTAVE_DOWN_CODES \cup OCTAVE_UP_CODES THEN Kbd(down \cup {code}, ctm, <<>>)
  ELSE IF repeat \/ MidiOfCode(code) = <<>> \/ code \in down THEN Kbd(down, ctm, <<>>)
  ELSE Kbd(down \cup {code},
           Append(ctm, [key |-> code, midi |-> MidiOfCode(code)[1]]),
           <<HubEv("noteon", MidiOfCode(code)[1], KBD, code)>>)

\* a keyup listener that computes the pitch again from the key code
KeyUpRecompute(down, ctm, code) ==
  IF code \in OCTAVE_DOWN_CODES \cup OCTAVE_UP_CODES THEN Kbd(down \ {code}, ctm, <<>>)
  ELSE IF ~Has(ctm, code) \/ code \notin down THEN Kbd(down, ctm, <<>>)
  ELSE Kbd(down \ {code}, SelectSeq(ctm, LAMBDA e : e.key # code),
           <<HubEv("noteoff", MidiOfCode(code)[1], KBD, code)>>)

\* keyup listener
KeyUp(down, ctm, code) ==
  IF code \in OCTAVE_DOWN_CODES \cup OCTAVE_UP_CODES THEN Kbd(down \ {code}, ctm, <<>>)
  ELSE IF ~Has(ctm, code) \/ code \notin down THEN Kbd(down, ctm, <<>>)
  ELSE Kbd(down \ {code}, SelectSeq(ctm, LAMBDA e : e.key # code),
           <<HubEv("noteoff", Get(ctm, code).midi, KBD, code)>>)

\* the last DOM event, whether its key was tracked as down, and the pitches
\* the source had turned on and not yet off
NoKbdEvent == [op |-> "none", code |-> "", wasDown |-> FALSE, notes |-> {}]

KbdEvent(op, code) ==
  [op |-> op, code |-> code, wasDown |-> code \in downCodes,
   notes |-> {codeToMidiDown[i].midi : i \in DOMAIN codeToMidiDown}]

IdleKbd ==
  /\ downCodes = {}
  /\ codeToMidiDown = <<>>
  /\ kbdAttached = TRUE
  /\ kbdSeen = [c \in KbdCodes |-> "none"]
  /\ kbdLog = <<>>
  /\ kbdLast = NoKbdEvent

HubUnobserved == UNCHANGED <<listeners, snap, holders, regAt, lastCall, lastDeliv, snapTaken, calls>>

\* the source's state after a handler, and the hub after the handler's calls
KbdBecomes(k) ==
  /\ downCodes' = k.down
  /\ codeToMidiDown' = k.ctm
  /\ kbdLog' = Emitted(kbdSeen, k.evs)
  /\ kbdSeen' = SeenAfter(kbdSeen, k.evs)
  /\ LET h == HubCalls([bm |-> byMidi, rs |-> recs], k.evs)
     IN byMidi' = h.bm /\ recs' = h.rs
  /\ HubUnobserved
  /\ UNCHANGED kbdAttached

\* a keydown event: the keydown listener, then the Escape panic listener
KbdKeyDown(code, repeat, editable) ==
  /\ kbdAttached
  /\ code \in OCTAVE_UP_CODES => octaveOffset + 1 <= MaxShift
  /\ code \in OCTAVE_DOWN_CODES => octaveOffset - 1 >= -MaxShift
  /\ kbdLast' = KbdEvent("keydown", code)
  /\ LET k == KeyDown(downCodes, codeToMidiDown, code, repeat, editable)
         fresh == ~editable /\ code \notin downCodes
     IN /\ KbdBecomes(IF code = "Escape" THEN AllUp(k.down, k.ctm) ELSE k)
        /\ IF fresh /\ code \in OCTAVE_DOWN_CODES THEN DecOctave
           ELSE IF fresh /\ code \in OCTAVE_UP_CODES THEN IncOctave
           ELSE UNCHANGED octVars

KbdKeyUp(code) ==
  /\ kbdAttached
  /\ kbdLast' = KbdEvent("keyup", code)
  /\ KbdBecomes(KeyUp(downCodes, codeToMidiDown, code))
  /\ UNCHANGED octVars

\* window blur
KbdBlur ==
  /\ kbdAttached
  /\ kbdLast' = KbdEvent("blur", "")
  /\ KbdBecomes(AllUp(downCodes, codeToMidiDown))
  /\ UNCHANGED octVars

\* visibilitychange
KbdVisibility(hidden) ==
  /\ kbdAttached
  /\ kbdLast' = KbdEvent(IF hidden THEN "hidden" ELSE "visible", "")
  /\ KbdBecomes(IF hidden THEN AllUp(downCodes, codeToMidiDown)
                ELSE Kbd(downCodes, codeToMidiDown, <<>>))
  /\ UNCHANGED octVars

\* the function attachKeyboardToHub returned; it may be called again
KbdDetach ==
  /\ kbdLast' = KbdEvent("detach", "")
  /\ downCodes' = {}
  /\ codeToMidiDown' = <<>>
  /\ kbdAttached' = FALSE
  /\ LET k == AllUp(downCodes, codeToMidiDown)
         h == HubCalls([bm |-> byMidi, rs |-> recs], k.evs)
     IN /\ kbdLog' = Emitted(kbdSeen, k.evs)
        /\ kbdSeen' = SeenAfter(kbdSeen, k.evs)
        /\ byMidi' = h.bm /\ recs' = h.rs
  /\ HubUnobserved
  /\ UNCHANGED octVars

\* the other source plays the hub
UiNote(type, midi) ==
  /\ kbdLast' = KbdEvent("ui", "")
  /\ kbdLog' = <<>>
  /\ LET h == HubCall([bm |-> byMidi, rs |-> recs], HubEv(type, midi, "ui", ""))
     IN byMidi' = h.bm /\ recs' = h.rs
  /\ HubUnobserved
  /\ UNCHANGED <<downCodes, codeToMidiDown, kbdAttached, kbdSeen, octVars>>

\* For each key code, the MIDI number of the noteOn the source last sent to
\* the hub for it; it is kept through the handler that sends the noteOff and
\* cleared (0) by the first handler after that.
InitKey == kbdOnMidi = [c \in KbdCodes |-> 0]

\* the pitches are not followed
IdleKey == kbdOnMidi = <<>>

EventsOfCode(log, c) == SelectSeq(log, LAMBDA e : e.ev.code = c)

\* kbdOnMidi after a handler, from the hub events it emitted
TrackKey ==
  kbdOnMidi' =
    [c \in KbdCodes |->
       LET evs == EventsOfCode(kbdLog', c)
       IN IF evs = <<>> THEN (IF Has(codeToMidiDown', c) THEN kbdOnMidi[c] ELSE 0)
          ELSE IF evs[Len(evs)].ev.type = "noteon" THEN evs[Len(evs)].ev.midi
          ELSE kbdOnMidi[c]]

\* keydown events: plain, auto-repeat, and from an editable target (where the
\* listener returns before it looks at ev.repeat)
KeyDownKinds ==
  {[repeat |-> FALSE, editable |-> FALSE], [repeat |-> TRUE, editable |-> FALSE],
   [repeat |-> FALSE, editable |-> TRUE]}

NextKbd ==
  \/ \E c \in KbdCodes, k \in KeyDownKinds : KbdKeyDown(c, k.repeat, k.editable) /\ UNCHANGED notKbd
  \/ \E c \in KbdCodes : KbdKeyUp(c) /\ UNCHANGED notKbd
  \/ KbdBlur /\ UNCHANGED notKbd
  \/ \E h \in BOOLEAN : KbdVisibility(h) /\ UNCHANGED notKbd
  \/ KbdDetach /\ UNCHANGED notKbd
  \/ \E m \in UiMidi : UiNote("noteon", m) /\ UNCHANGED notKbd
  \/ \E m \in UiMidi : UiNote("noteoff", m) /\ UNCHANGED notKbd

\* the keyboard source alone on the hub, with kbdOnMidi followed
KeyCodes == {"KeyA", "KeyK", "Digit1", "Digit2"}

NextKey ==
  \/ \E c \in KeyCodes : KbdKeyDown(c, FALSE, FALSE) /\ TrackKey /\ UNCHANGED notKey
  \/ \E c \in KeyCodes : KbdKeyUp(c) /\ TrackKey /\ UNCHANGED notKey
  \/ KbdBlur /\ TrackKey /\ UNCHANGED notKey

\* ====================================================== notes at the gate
\* The arpeggiator, with a record of what it has told the gate to sound.

\* a note the gate was told to start, and the time of the noteOff scheduled
\* with it
Sounds(midi, off) == [midi |-> midi, off |-> off]

\* the notes a handler run issued: triggerStep calls gate.noteOn(m, when)
\* and gate.noteOff(m, when + dur) together
Issued(log) ==
  {Sounds(e.midi, e.when) :
     e \in {x \in Range(log) : /\ x.type = "off"
                               /\ \E y \in Range(log) : y.type = "on" /\ y.midi = x.midi}}

\* per pitch the note that ends last, of those whose noteOff is to come
StillSounding(notes, now) ==
  {e \in notes : e.off > now /\ \A f \in notes : f.midi = e.midi => f.off <= e.off}

\* the notes left sounding by a handler's gate.noteOff calls at time `at`
Silenced(notes, log, at) ==
  {e \in notes : ~(e.off > at /\ GateOff(e.midi, at) \in Range(log))}

IdleGate == gateNotes = {}

\* gateNotes after a step: the notes that were sounding and that the last
\* handler did not silence, and those the step issues, as far as their
\* noteOff time is still to come
Track ==
  gateNotes' = StillSounding(Silenced(gateNotes, arp.log, arp.panicAt) \cup Issued(arp'.log),
                             ArpClock[clock'])

\* the patches of the on and hold controls
GatePatches == {p \in OneKey : p.on # Absent \/ p.hold # Absent}

NextGate ==
  \/ \E m \in Midi, s \in ArpSources : ArpKeyOn(m, s) /\ Track /\ UNCHANGED notGate
  \/ \E m \in Midi, s \in ArpSources : ArpKeyOff(m, s) /\ Track /\ UNCHANGED notGate
  \/ \E p \in GatePatches : ArpSetParams(p) /\ Track /\ UNCHANGED notGate
  \/ ArpTick /\ Track /\ UNCHANGED notGate
  \/ ArpCaptureTimeout /\ Track /\ UNCHANGED notGate
  \/ ArpDispose /\ Track /\ UNCHANGED notGate
  \/ ArpAdvance /\ Track /\ UNCHANGED notGate

\* ===================================================== step length and gate
\* stepLengthSec and the note duration of triggerStep as pure functions of
\* the schema's parameters, in microseconds (rounded down).

US_PER_MIN == 60 * 1000 * 1000

\* arp.bpm (40..240), arp.div as the n of '1/n', arp.rateHz in tenths
\* (0.1..32), arp.gate in percent (0.1..0.95)
Bpms == {40, 120, 240}

Divs == {1, 2, 4, 8, 16, 32}

RateTenths == {1, 80, 320}

GatePcts == {10, 60, 95}

\* stepLengthSec: DIV_TO_BEATS['1/n'] / (bpm / 60), or 1 / rateHz
StepLengthUs(p) ==
  IF p.sync THEN US_PER_MIN \div (p.bpm * p.div)
  ELSE (10 * 1000 * 1000) \div Max2(1, p.rateTenths)

\* triggerStep: dur = max(0.008, min(stepDur * gate, stepDur - 0.012))
GateDurUs(stepDur, gatePct) ==
  Max2(MIN_DUR_MS * 1000, Min2((stepDur * gatePct) \div 100, stepDur - MIN_GAP_MS * 1000))

NoDur == [called |-> FALSE, step |-> 0, dur |-> 0]

\* no step is computed
IdleDur ==
  /\ durIn = <<>>
  /\ durOut = <<>>

InitDur ==
  /\ durIn \in [sync : BOOLEAN, bpm : Bpms, div : Divs, rateTenths : RateTenths, gatePct : GatePcts]
  /\ durOut = NoDur

\* one step triggered with these parameters
CallDur ==
  /\ ~durOut.called
  /\ durOut' = [called |-> TRUE, step |-> StepLengthUs(durIn),
                dur |-> GateDurUs(StepLengthUs(durIn), durIn.gatePct)]
  /\ UNCHANGED durIn

\* ============================================== audio mount (app.ts)
\* audio.mount(ctx): the chain, the voice pool, the hub with its keyboard
\* source and the raw-code passthrough, and update(params).  Frequencies in
\* Hz, Q in 1/10000, gains in 1/1000, envelope times in ms.  The arpeggiator
\* object the mount feeds is followed on its own above (ArpSetParams with an
\* AppPatch); it reaches the pool only through the MIDI-indexed voices.

\* createChain: the AudioParam values the chain is built with
NewChain == [cutoff |-> 2000, q |-> 10000, lfoGain |-> 0, fbWet |-> 250, fbGain |-> 600]

\* the keys of a params map that update() reads; a key is Absent or <<value>>
MountKeys == {"filtOn", "cutoff", "lfoOn", "depth", "fbOn", "amount", "envOn", "attack", "release", "arpOn"}

MountValues(k) ==
  IF k \in {"filtOn", "lfoOn", "fbOn", "envOn", "arpOn"} THEN BOOLEAN
  ELSE IF k = "cutoff" THEN {800}
  ELSE IF k = "depth" THEN {300}
  ELSE IF k = "amount" THEN {1500}
  ELSE IF k = "attack" THEN {50}
  ELSE {400}

EmptyPatch == [k \in MountKeys |-> Absent]

\* partial patches: nothing, or one changed key
PartialPatches ==
  {EmptyPatch} \cup UNION {{[EmptyPatch EXCEPT ![k] = <<v>>] : v \in MountValues(k)} : k \in MountKeys}

\* full snapshots: every key present
FullSnapshots ==
  {[filtOn |-> <<f>>, cutoff |-> <<800>>, lfoOn |-> <<m>>, depth |-> <<300>>,
    fbOn |-> <<m>>, amount |-> <<1500>>, envOn |-> <<e>>, attack |-> <<50>>,
    release |-> <<400>>, arpOn |-> <<a>>] : f \in BOOLEAN, m \in BOOLEAN, e \in BOOLEAN, a \in BOOLEAN}

MountPatches == PartialPatches \cup FullSnapshots

\* !!params[key]
Truthy(opt) == opt = <<TRUE>>

\* the Filter, LFO and Feedback blocks of update()
UpdateChain(c, p) ==
  LET filtOn == Truthy(p["filtOn"])
      lfoOn == Truthy(p["lfoOn"])
      fbOn == Truthy(p["fbOn"])
  IN [cutoff |-> IF ~filtOn THEN 20000 ELSE Assigned(c.cutoff, p["cutoff"]),
      q |-> IF ~filtOn THEN 1 ELSE c.q,
      lfoGain |-> IF ~lfoOn THEN 0 ELSE Assigned(c.lfoGain, p["depth"]),
      fbWet |-> IF ~fbOn THEN 0
                ELSE IF p["amount"] = Absent THEN c.fbWet
                ELSE Min2(1000, Max2(0, p["amount"][1])),
      fbGain |-> IF ~fbOn THEN 0 ELSE c.fbGain]

\* the "Envelope live object" block of update()
UpdateEnv(e, p) ==
  IF ~Truthy(p["envOn"]) THEN [A |-> 0, D |-> 0, S |-> GAIN_ONE, R |-> 0]
  ELSE [e EXCEPT !.A = IF p["attack"] = Absent THEN @ ELSE Max2(0, p["attack"][1]),
                 !.R = IF p["release"] = Absent THEN @ ELSE Max2(0, p["release"][1])]

IdleMount ==
  /\ chain = NewChain
  /\ liveEnv = DefaultADSR
  /\ arpEnabled = FALSE
  /\ currentParams = [arpOn |-> Absent]

\* the voice pool after the mount's calls; its own history is not kept here
PoolAfter(p) ==
  /\ voicesByCode' = p.byCode
  /\ voicesByMidi' = p.byMidi
  /\ UNCHANGED <<currentType, poolLog, poolLast>>

\* update(params)
MountUpdate(p) ==
  /\ currentParams' = [arpOn |-> IF p["arpOn"] = Absent THEN currentParams.arpOn ELSE p["arpOn"]]
  /\ chain' = UpdateChain(chain, p)
  /\ liveEnv' = UpdateEnv(liveEnv, p)
  /\ IF p["arpOn"] = Absent
       THEN UNCHANGED <<arpEnabled, poolVars>>
       ELSE /\ arpEnabled' = Truthy(p["arpOn"])
            /\ IF ~Truthy(p["arpOn"]) /\ arpEnabled
                 THEN PoolAfter(PoolAllOff(voicesByCode, voicesByMidi))
                 ELSE UNCHANGED poolVars
  /\ UNCHANGED <<kbdVars, hubVars, octVars>>

\* opts.onCodeDown / opts.onCodeUp after a hub call of the keyboard source
Passthrough(evs) ==
  IF arpEnabled \/ evs = <<>> THEN UNCHANGED poolVars
  ELSE IF evs[1].type = "noteon"
    THEN PoolAfter(PoolNoteOn(voicesByCode, voicesByMidi, currentType, evs[1].code))
    ELSE PoolAfter(PoolNoteOff(voicesByCode, voicesByMidi, evs[1].code))

\* a keydown event reaching the mount's keyboard source
MountKeyDown(code, repeat, editable) ==
  /\ KbdKeyDown(code, repeat, editable)
  /\ Passthrough(KeyDown(downCodes, codeToMidiDown, code, repeat, editable).evs)
  /\ UNCHANGED <<chain, liveEnv, arpEnabled, currentParams>>

MountKeyUp(code) ==
  /\ KbdKeyUp(code)
  /\ Passthrough(KeyUp(downCodes, codeToMidiDown, code).evs)
  /\ UNCHANGED <<chain, liveEnv, arpEnabled, currentParams>>

\* window blur or the document hidden: allUp, which makes no onCodeUp call
MountBlur ==
  /\ KbdBlur
  /\ UNCHANGED <<chain, liveEnv, arpEnabled, currentParams, poolVars>>

MountHidden ==
  /\ KbdVisibility(TRUE)
  /\ UNCHANGED <<chain, liveEnv, arpEnabled, currentParams, poolVars>>

\* dispose(): detachKeyboard(), pool.dispose()
MountDispose ==
  /\ KbdDetach
  /\ PoolAfter(Pool(<<>>, <<>>, <<>>))
  /\ UNCHANGED <<chain, liveEnv, arpEnabled, currentParams>>

MountCodes == {"KeyA", "KeyK", "Escape"}

NextMount ==
  \/ \E p \in MountPatches : MountUpdate(p) /\ UNCHANGED notMount
  \/ \E c \in MountCodes, r \in BOOLEAN : MountKeyDown(c, r, FALSE) /\ UNCHANGED notMount
  \/ \E c \in MountCodes : MountKeyUp(c) /\ UNCHANGED notMount
  \/ MountBlur /\ UNCHANGED notMount
  \/ MountHidden /\ UNCHANGED notMount
  \/ MountDispose /\ UNCHANGED notMount

\* ================================================ setParams, call by call
\* The arpeggiator, with a record of the last setParams call: its patch and
\* what it found.

NoSet ==
  [called |-> FALSE, tick |-> FALSE, patch |-> NoPatch, latched |-> <<>>, next |-> 0,
   on |-> FALSE, timing |-> DefaultTiming]

InitPar == setLast = NoSet

\* the calls are not recorded
IdlePar == setLast = <<>>

\* setParams(p) and the record of it
ParSetParams(p) ==
  /\ ArpSetParams(p)
  /\ setLast' = [called |-> TRUE, tick |-> FALSE, patch |-> p, latched |-> arp.latched,
                 next |-> arp.nextStepTime, on |-> arp.on, timing |-> arp.timing]

NotSetParams == setLast' = NoSet

\* a scheduler tick, and the nextStepTime it found
ParTick ==
  /\ ArpTick
  /\ setLast' = [NoSet EXCEPT !.tick = TRUE, !.next = arp.nextStepTime]

\* what update() passes for a full snapshot of the controls with the
\* arpeggiator and hold switched on
HoldSnapshots ==
  {[on |-> <<TRUE>>, hold |-> <<TRUE>>, pattern |-> <<v>>, octaves |-> <<1>>,
    timing |-> <<DefaultTiming>>] : v \in {"updown", "chord"}}

\* the patches of the on, hold and timing controls alone, those of the hold
\* control as update() passes them, and the snapshots
ParKeys == {p \in OneKey : p.on # Absent \/ p.hold # Absent \/ p.timing # Absent}

\* a call that switches the arpeggiator off and sets the timing
OffAndTiming == {[NoPatch EXCEPT !.on = <<FALSE>>, !.timing = <<t>>] : t \in Timings}

ParPatches(a) ==
  ParKeys \cup {AppPatch(a, p) : p \in {q \in ParKeys : q.hold # Absent}}
    \cup HoldSnapshots \cup OffAndTiming

NextPar ==
  \/ \E m \in Midi, s \in ArpSources : ArpKeyOn(m, s) /\ NotSetParams /\ UNCHANGED notPar
  \/ \E m \in Midi, s \in ArpSources : ArpKeyOff(m, s) /\ NotSetParams /\ UNCHANGED notPar
  \/ \E p \in ParPatches(arp) : ParSetParams(p) /\ UNCHANGED notPar
  \/ ParTick /\ UNCHANGED notPar
  \/ ArpCaptureTimeout /\ NotSetParams /\ UNCHANGED notPar
  \/ ArpDispose /\ NotSetParams /\ UNCHANGED notPar
  \/ ArpAdvance /\ NotSetParams /\ UNCHANGED notPar

\* ===================================================== steps of one order
\* The arpeggiator as applyRecorded leaves it (stepIdx = 0, dir = 1) for a
\* base of distinct ascending notes, and the body of schedulerTick's loop
\* run on it step after step with the base unchanged.
StepMidi == {60, 64, 67, 72}
StepPatterns == {"up", "updown"}
AscendingBases == {SortedSeq(S) : S \in {T \in SUBSET StepMidi : Cardinality(T) >= 2}}

ArpOver(base, pattern) ==
  [NewArp EXCEPT !.on = TRUE, !.pattern = pattern,
                 !.order = ApplyPattern(base, pattern, NoRnd)]

\* no order is followed
IdleStep ==
  /\ stepBase = <<>>
  /\ stepArp = <<>>
  /\ stepPlayed = <<>>

InitStep ==
  /\ stepBase \in AscendingBases
  /\ \E pattern \in StepPatterns : stepArp = ArpOver(stepBase, pattern)
  /\ stepPlayed = <<>>

\* this.triggerStep(this.nextStepTime); this.nextStepTime += this.stepLen()
OneStep ==
  /\ Len(stepPlayed) < MaxSteps
  /\ LET b == TriggerStep(Fresh(stepArp), stepArp.nextStepTime)
     IN /\ stepArp' = [b EXCEPT !.nextStepTime = @ + StepLengthMs(b.timing)]
        /\ stepPlayed' = stepPlayed \o [i \in DOMAIN SelectSeq(b.log, LAMBDA e : e.type = "on") |->
                                          SelectSeq(b.log, LAMBDA e : e.type = "on")[i].midi]
  /\ UNCHANGED stepBase

NextStep == OneStep /\ UNCHANGED notStep

\* ============================================== the arpeggiator's timers
\* The arpeggiator switched on, non-hold, with its two timers followed in
\* the order they fall due: the 25 ms interval of ensureRunning and the
\* capture window's setTimeout.
LiveClock == <<0, 80, 95, 200>>
LiveNow == LiveClock[clock]
\* the last instant stands for all later times
LiveLate == clock = Len(LiveClock)

WindowEnd(a) == a.capStartMs + CAPTURE_MS

\* app.ts mount, then setParams({ on: true })
InitLive ==
  /\ byMidi = EmptyMap
  /\ recs = EmptyMap
  /\ listeners = <<"arp">>
  /\ snap = NoSnap
  /\ holders = [m \in Midi |-> {}]
  /\ regAt = [l \in Listeners |-> 0]
  /\ lastCall = NoCall
  /\ lastDeliv = <<>>
  /\ snapTaken = NoSnap
  /\ calls = 0
  /\ arp = SetParams(NewArp, [NoPatch EXCEPT !.on = <<TRUE>>], {}, 0, NoRnd)
  /\ clock = 1

\* a key goes down before the last instant
LiveKeyOn(midi) ==
  /\ ~LiveLate
  /\ "kbd" \notin holders[midi]
  /\ arp.capTimer => \A i \in DOMAIN arp.capEvents : arp.capEvents[i].midi # midi
  /\ byMidi' = HubOnMap(byMidi, recs, midi)
  /\ recs' = Collect(HubOnRecs(byMidi, recs, midi, Velocity, LiveNow, "kbd"),
                     byMidi', snap)
  /\ holders' = [holders EXCEPT ![midi] = @ \cup {"kbd"}]
  /\ arp' = OnHubNoteOn(Fresh(arp), midi, LiveNow)
  /\ UNCHANGED <<listeners, snap, regAt, lastCall, lastDeliv, snapTaken,
                 calls, clock>>

\* a key goes up
LiveKeyOff(midi) ==
  /\ "kbd" \in holders[midi]
  /\ byMidi' = HubOffMap(byMidi, recs, midi, "kbd")
  /\ recs' = Collect(HubOffRecs(byMidi, recs, midi, "kbd"), byMidi', snap)
  /\ holders' = [holders EXCEPT ![midi] = @ \ {"kbd"}]
  /\ arp' = OnHubNoteOff(Fresh(arp), HeldPitches(byMidi'), NoRnd)
  /\ UNCHANGED <<listeners, snap, regAt, lastCall, lastDeliv, snapTaken,
                 calls, clock>>

TickDue == arp.timer /\ (LiveNow >= arp.timerDue \/ LiveLate)

TimeoutDue == arp.capTimer /\ LiveNow >= WindowEnd(arp)

\* The interval's next due time after a callback.  At the last instant the
\* callbacks keep coming, 25 ms apart; their due times are kept as the two
\* values after that instant, in turn.
NextDue(due) ==
  IF due <= LiveNow
  THEN due + INTERVAL_MS * (((LiveNow - due) \div INTERVAL_MS) + 1)
  ELSE IF due - LiveNow <= INTERVAL_MS THEN due + INTERVAL_MS
  ELSE due - INTERVAL_MS

\* the arpeggiator after the interval's callback
Ticked ==
  [SchedulerTick(Fresh(arp), HeldPitches(byMidi), LiveNow, NoRnd)
     EXCEPT !.timerDue = NextDue(@)]

\* the interval's callback may run: it is due, and the window's timeout did
\* not fall due before it
TickMayRun == TickDue /\ (TimeoutDue => arp.timerDue <= WindowEnd(arp))

\* the interval timer fires
LiveTick ==
  /\ TickMayRun
  /\ arp' = Ticked
  /\ UNCHANGED <<hubVars, clock>>

\* the window's timeout fires, unless a tick fell due before it
LiveTimeout ==
  /\ TimeoutDue
  /\ (arp.timer /\ LiveNow >= arp.timerDue) => WindowEnd(arp) < arp.timerDue
  /\ arp' = [Fresh(arp) EXCEPT !.capTimer = FALSE]
  /\ UNCHANGED <<hubVars, clock>>

\* time passes once the timers that fell due have fired
LiveAdvance ==
  /\ ~LiveLate
  /\ ~(arp.timer /\ LiveNow >= arp.timerDue)
  /\ ~TimeoutDue
  /\ clock' = clock + 1
  /\ arp' = Fresh(arp)
  /\ UNCHANGED hubVars

NextLive ==
  \/ \E m \in Midi : LiveKeyOn(m) /\ UNCHANGED notArp
  \/ \E m \in Midi : LiveKeyOff(m) /\ UNCHANGED notArp
  \/ LiveTick /\ UNCHANGED notArp
  \/ LiveTimeout /\ UNCHANGED notArp
  \/ LiveAdvance /\ UNCHANGED notArp

\* The timers fire when due, and time does not stop.  The condition on the
\* interval is weak fairness of LiveTick written out, with the state
\* predicate TickMayRun /\ Ticked # arp for ENABLED <<LiveTick>>_vars.
LiveFair ==
  /\ WF_vars(LiveTimeout /\ UNCHANGED notArp)
  /\ WF_vars(LiveAdvance /\ UNCHANGED notArp)
  /\ \/ []<>(~(TickMayRun /\ Ticked # arp))
     \/ []<><<LiveTick /\ UNCHANGED notArp>>_vars

\* ================================== ticks inside one capture window
\* The arpeggiator switched on in non-hold mode with a pattern, keys played
\* at the start of a capture window, and the interval's ticks at 25, 50 and
\* 75 ms inside it.  againLast records whether the last action was a tick
\* that finalized the capture, whether the action before it was one too, and
\* the step order the tick found.
WinClock == <<0, 25, 50, 75>>
WinNow == WinClock[clock]
AgainPatterns == {"up", "down", "updown", "chord"}

NoFinal == [final |-> FALSE, again |-> FALSE, before |-> <<>>]

\* the ticks are not recorded
IdleAgain == againLast = <<>>

\* app.ts mount, then setParams({ on: true, pattern, octaves })
InitAgain ==
  /\ byMidi = EmptyMap
  /\ recs = EmptyMap
  /\ listeners = <<"arp">>
  /\ snap = NoSnap
  /\ holders = [m \in Midi |-> {}]
  /\ regAt = [l \in Listeners |-> 0]
  /\ lastCall = NoCall
  /\ lastDeliv = <<>>
  /\ snapTaken = NoSnap
  /\ calls = 0
  /\ \E pattern \in AgainPatterns, octaves \in OctaveCounts :
       arp = SetParams(NewArp, [NoPatch EXCEPT !.on = <<TRUE>>, !.pattern = <<pattern>>,
                                               !.octaves = <<octaves>>], {}, 0, NoRnd)
  /\ clock = 1
  /\ againLast = NoFinal

\* a key goes down
AgainKeyOn(midi) ==
  /\ "kbd" \notin holders[midi]
  /\ arp.capTimer => \A i \in DOMAIN arp.capEvents : arp.capEvents[i].midi # midi
  /\ byMidi' = HubOnMap(byMidi, recs, midi)
  /\ recs' = Collect(HubOnRecs(byMidi, recs, midi, Velocity, WinNow, "kbd"),
                     byMidi', snap)
  /\ holders' = [holders EXCEPT ![midi] = @ \cup {"kbd"}]
  /\ arp' = OnHubNoteOn(Fresh(arp), midi, WinNow)
  /\ againLast' = NoFinal
  /\ UNCHANGED <<listeners, snap, regAt, lastCall, lastDeliv, snapTaken,
                 calls, clock>>

\* a key goes up
AgainKeyOff(midi) ==
  /\ "kbd" \in holders[midi]
  /\ byMidi' = HubOffMap(byMidi, recs, midi, "kbd")
  /\ recs' = Collect(HubOffRecs(byMidi, recs, midi, "kbd"), byMidi', snap)
  /\ holders' = [holders EXCEPT ![midi] = @ \ {"kbd"}]
  /\ arp' = OnHubNoteOff(Fresh(arp), HeldPitches(byMidi'), NoRnd)
  /\ againLast' = NoFinal
  /\ UNCHANGED <<listeners, snap, regAt, lastCall, lastDeliv, snapTaken,
                 calls, clock>>

\* the interval timer fires
AgainTick ==
  /\ arp.timer
  /\ WinNow >= arp.timerDue
  /\ arp' = [SchedulerTick(Fresh(arp), HeldPitches(byMidi), WinNow, NoRnd)
               EXCEPT !.timerDue = @ + INTERVAL_MS
                                     * (((WinNow - @) \div INTERVAL_MS) + 1)]
  /\ againLast' = [final |-> arp.capTimer,
                   again |-> againLast.final /\ arp.capTimer,
                   before |-> arp.order]
  /\ UNCHANGED <<hubVars, clock>>

\* time passes, once the tick that fell due has run
AgainAdvance ==
  /\ clock < Len(WinClock)
  /\ ~(arp.timer /\ WinNow >= arp.timerDue)
  /\ clock' = clock + 1
  /\ arp' = Fresh(arp)
  /\ UNCHANGED <<hubVars, againLast>>

NextAgain ==
  \/ \E m \in Midi : AgainKeyOn(m) /\ UNCHANGED notAgain
  \/ \E m \in Midi : AgainKeyOff(m) /\ UNCHANGED notAgain
  \/ AgainTick /\ UNCHANGED notAgain
  \/ AgainAdvance /\ UNCHANGED notAgain

\* ===================================================== the catch-up loop
\* The while loop of schedulerTick as a function of the step length, the
\* clock and nextStepTime, in microseconds, for the schema's parameters.
LOOKAHEAD_US == LOOKAHEAD_MS * 1000

\* how late the tick is: now - nextStepTime, in ms (negative: the next step
\* is still ahead)
MaxLateMs == 120
LateStepMs == 40
Lates == {l * LateStepMs : l \in -3 .. (MaxLateMs \div LateStepMs)}

RECURSIVE CountStepsAgain(_, _, _)
\* a loop that runs once more after reaching the horizon
CountStepsAgain(next, ahead, stepLen) ==
  IF next < ahead THEN 1 + CountStepsAgain(next + stepLen, ahead, stepLen) ELSE 1

RECURSIVE CountSteps(_, _, _)
\* while (nextStepTime < ahead) { triggerStep; nextStepTime += stepLen }:
\* the number of passes
CountSteps(next, ahead, stepLen) ==
  IF next < ahead THEN 1 + CountSteps(next + stepLen, ahead, stepLen) ELSE 0

\* the least integer not below a / b, for b > 0
CeilDiv(a, b) == -((-a) \div b)

NoLoop == [called |-> FALSE, steps |-> 0]

\* no loop is run
IdleLoop ==
  /\ loopIn = <<>>
  /\ loopOut = <<>>

InitLoop ==
  /\ loopIn \in [sync : BOOLEAN, bpm : Bpms, div : Divs, rateTenths : RateTenths, late : Lates]
  /\ loopOut = NoLoop

\* one schedulerTick with nextStepTime = 0 and the clock at loopIn.late
CallLoop ==
  /\ ~loopOut.called
  /\ loopOut' = [called |-> TRUE,
                 steps |-> CountSteps(0, loopIn.late * 1000 + LOOKAHEAD_US, StepLengthUs(loopIn))]
  /\ UNCHANGED loopIn

NextLoop == CallLoop /\ UNCHANGED notLoop

\* ========================================================== specifications
IdleHub == InitHub

InitOfHub == InitHub /\ IdleChord /\ IdleMerge /\ IdleOct /\ IdleArp /\ IdleEnv /\ IdlePat /\ IdleVis /\ IdlePool /\ IdleKbd /\ IdleGate /\ IdleDur /\ IdleMount /\ IdlePar /\ IdleStep /\ IdleKey /\ IdleAgain /\ IdleLoop

SpecHub == InitOfHub /\ [][NextHub]_vars

InitOfChord == IdleHub /\ IdleChord /\ IdleMerge /\ IdleOct /\ IdleArp /\ IdleEnv /\ IdlePat /\ IdleVis /\ IdlePool /\ IdleKbd /\ IdleGate /\ IdleDur /\ IdleMount /\ IdlePar /\ IdleStep /\ IdleKey /\ IdleAgain /\ IdleLoop

SpecChord == InitOfChord /\ [][NextChord]_vars

InitOfMerge == IdleHub /\ IdleChord /\ InitMerge /\ IdleOct /\ IdleArp /\ IdleEnv /\ IdlePat /\ IdleVis /\ IdlePool /\ IdleKbd /\ IdleGate /\ IdleDur /\ IdleMount /\ IdlePar /\ IdleStep /\ IdleKey /\ IdleAgain /\ IdleLoop

NextMerge == CallMerge /\ UNCHANGED notMerge

SpecMerge == InitOfMerge /\ [][NextMerge]_vars

InitOfOct == IdleHub /\ IdleChord /\ IdleMerge /\ IdleOct /\ IdleArp /\ IdleEnv /\ IdlePat /\ IdleVis /\ IdlePool /\ IdleKbd /\ IdleGate /\ IdleDur /\ IdleMount /\ IdlePar /\ IdleStep /\ IdleKey /\ IdleAgain /\ IdleLoop

SpecOct == InitOfOct /\ [][NextOct]_vars

InitOfArp == InitArp /\ IdleChord /\ IdleMerge /\ IdleOct /\ IdleEnv /\ IdlePat /\ IdleVis /\ IdlePool /\ IdleKbd /\ IdleGate /\ IdleDur /\ IdleMount /\ IdlePar /\ IdleStep /\ IdleKey /\ IdleAgain /\ IdleLoop

SpecArp == InitOfArp /\ [][NextArp]_vars

InitOfEnv == IdleHub /\ IdleChord /\ IdleMerge /\ IdleOct /\ IdleArp /\ IdleEnv /\ IdlePat /\ IdleVis /\ IdlePool /\ IdleKbd /\ IdleGate /\ IdleDur /\ IdleMount /\ IdlePar /\ IdleStep /\ IdleKey /\ IdleAgain /\ IdleLoop

SpecEnv == InitOfEnv /\ [][NextEnv]_vars

InitOfPat == IdleHub /\ IdleChord /\ IdleMerge /\ IdleOct /\ IdleArp /\ IdleEnv /\ InitPat /\ IdleVis /\ IdlePool /\ IdleKbd /\ IdleGate /\ IdleDur /\ IdleMount /\ IdlePar /\ IdleStep /\ IdleKey /\ IdleAgain /\ IdleLoop

NextPat == CallPattern /\ UNCHANGED notPat

SpecPat == InitOfPat /\ [][NextPat]_vars

InitOfVis == IdleHub /\ IdleChord /\ IdleMerge /\ IdleOct /\ IdleArp /\ IdleEnv /\ IdlePat /\ IdleVis /\ IdlePool /\ IdleKbd /\ IdleGate /\ IdleDur /\ IdleMount /\ IdlePar /\ IdleStep /\ IdleKey /\ IdleAgain /\ IdleLoop

NextVis == Frame /\ UNCHANGED notVis

SpecVis == InitOfVis /\ [][NextVis]_vars

InitOfPool == IdleHub /\ IdleChord /\ IdleMerge /\ IdleOct /\ IdleArp /\ IdleEnv /\ IdlePat /\ IdleVis /\ IdlePool /\ IdleKbd /\ IdleGate /\ IdleDur /\ IdleMount /\ IdlePar /\ IdleStep /\ IdleKey /\ IdleAgain /\ IdleLoop

SpecPool == InitOfPool /\ [][NextPool]_vars

InitOfKbd == IdleHub /\ IdleChord /\ IdleMerge /\ IdleOct /\ IdleArp /\ IdleEnv /\ IdlePat /\ IdleVis /\ IdlePool /\ IdleKbd /\ IdleGate /\ IdleDur /\ IdleMount /\ IdlePar /\ IdleStep /\ IdleKey /\ IdleAgain /\ IdleLoop

SpecKbd == InitOfKbd /\ [][NextKbd]_vars

InitOfKey == IdleHub /\ IdleChord /\ IdleMerge /\ IdleOct /\ IdleArp /\ IdleEnv /\ IdlePat /\ IdleVis /\ IdlePool /\ IdleKbd /\ IdleGate /\ IdleDur /\ IdleMount /\ IdlePar /\ IdleStep /\ InitKey /\ IdleAgain /\ IdleLoop

SpecKey == InitOfKey /\ [][NextKey]_vars

InitOfLive == InitLive /\ IdleChord /\ IdleMerge /\ IdleOct /\ IdleEnv /\ IdlePat /\ IdleVis /\ IdlePool /\ IdleKbd /\ IdleGate /\ IdleDur /\ IdleMount /\ IdlePar /\ IdleStep /\ IdleKey /\ IdleAgain /\ IdleLoop

SpecLive == InitOfLive /\ [][NextLive]_vars /\ LiveFair

InitOfGate == InitArp /\ IdleChord /\ IdleMerge /\ IdleOct /\ IdleEnv /\ IdlePat /\ IdleVis /\ IdlePool /\ IdleKbd /\ IdleGate /\ IdleDur /\ IdleMount /\ IdlePar /\ IdleStep /\ IdleKey /\ IdleAgain /\ IdleLoop

SpecGate == InitOfGate /\ [][NextGate]_vars

InitOfDur == IdleHub /\ IdleChord /\ IdleMerge /\ IdleOct /\ IdleArp /\ IdleEnv /\ IdlePat /\ IdleVis /\ IdlePool /\ IdleKbd /\ IdleGate /\ InitDur /\ IdleMount /\ IdlePar /\ IdleStep /\ IdleKey /\ IdleAgain /\ IdleLoop

NextDur == CallDur /\ UNCHANGED notDur

SpecDur == InitOfDur /\ [][NextDur]_vars

InitOfMount == IdleHub /\ IdleChord /\ IdleMerge /\ IdleOct /\ IdleArp /\ IdleEnv /\ IdlePat /\ IdleVis /\ IdlePool /\ IdleKbd /\ IdleGate /\ IdleDur /\ IdleMount /\ IdlePar /\ IdleStep /\ IdleKey /\ IdleAgain /\ IdleLoop

SpecMount == InitOfMount /\ [][NextMount]_vars

InitOfPar == InitArp /\ IdleChord /\ IdleMerge /\ IdleOct /\ IdleEnv /\ IdlePat /\ IdleVis /\ IdlePool /\ IdleKbd /\ IdleGate /\ IdleDur /\ IdleMount /\ InitPar /\ IdleStep /\ IdleKey /\ IdleAgain /\ IdleLoop

SpecPar == InitOfPar /\ [][NextPar]_vars

InitOfStep == IdleHub /\ IdleChord /\ IdleMerge /\ IdleOct /\ IdleArp /\ IdleEnv /\ IdlePat /\ IdleVis /\ IdlePool /\ IdleKbd /\ IdleGate /\ IdleDur /\ IdleMount /\ IdlePar /\ InitStep /\ IdleKey /\ IdleAgain /\ IdleLoop

SpecStep == InitOfStep /\ [][NextStep]_vars


InitOfAgain == InitAgain /\ IdleChord /\ IdleMerge /\ IdleOct /\ IdleEnv /\ IdlePat /\ IdleVis /\ IdlePool /\ IdleKbd /\ IdleGate /\ IdleDur /\ IdleMount /\ IdlePar /\ IdleStep /\ IdleKey /\ IdleLoop

SpecAgain == InitOfAgain /\ [][NextAgain]_vars

InitOfLoop == InitLoop /\ IdleHub /\ IdleChord /\ IdleMerge /\ IdleOct /\ IdleArp /\ IdleEnv /\ IdlePat /\ IdleVis /\ IdlePool /\ IdleKbd /\ IdleGate /\ IdleDur /\ IdleMount /\ IdlePar /\ IdleStep /\ IdleKey /\ IdleAgain

SpecLoop == InitOfLoop /\ [][NextLoop]_vars

\* ================================================================= claims

\* C1: while the arpeggiator is off (its setParams took `on` from true to
\* false and ran the panic) or disposed, no handler run (a hub event
\* delivered to it, a timer firing, a setParams that leaves it off) calls
\* gate.noteOn.
C1_NoNoteOnWhileOff ==
  (~arp.on \/ arp.disposed) =>
    \A i \in DOMAIN arp.log : arp.log[i].type # "on"

\* The arpeggiator has sounded a step, was then turned off, and after the
\* panic a key went up (the order was rebuilt from a key still held) and a
\* key went down (a capture window opened after the panic time).
C1_Witness ==
  /\ ~arp.on /\ ~arp.disposed /\ arp.stepped
  /\ arp.order # <<>>
  /\ arp.capTimer /\ arp.capStartMs >= arp.nextStepTime

\* C2, as claimed: a snapshot of the hub taken after the handler that ran
\* the arpeggiator's panic holds no note.
C2_ZeroHeldAfterPanic ==
  arp.panicAt >= 0 => SnapshotHeld(byMidi, recs) = <<>>

HeldInSnapshot ==
  {SnapshotHeld(byMidi, recs)[i].midi : i \in DOMAIN SnapshotHeld(byMidi, recs)}

\* C2, amended: the panic leaves the hub as it is; a snapshot taken after the
\* handler that ran it lists exactly the notes some source still holds, and
\* the panic has called gate.noteOff, at its time gate.now() + 1 ms, for
\* every note of that snapshot.
C2_PanicReleasesHeldAtGate ==
  arp.panicAt >= 0 =>
    /\ HeldInSnapshot = {m \in Midi : holders[m] # {}}
    /\ \A m \in HeldInSnapshot : GateOff(m, arp.panicAt) \in Range(arp.log)

\* A panic, run by setParams on an arpeggiator that had sounded a step,
\* while a key is held.
C2_Witness ==
  /\ arp.panicAt >= 0 /\ ~arp.disposed /\ arp.stepped
  /\ SnapshotHeld(byMidi, recs) # <<>>

\* C3, as claimed: when scheduleAttackDecay splices a new attack at t0 into
\* a ramp that is still running there, the value the ramp has just before
\* t0 and the value the attack starts from differ by no more than SpliceEps.
C3_NoJumpAtSplice ==
  (envSplice.called /\ envSplice.inFlight) =>
    Abs(envSplice.start - envSplice.before) <= SpliceEps

\* C4: a pitch has a held record exactly while the set of sources that
\* called noteOn for it and have not since called noteOff is non-empty, and
\* no record has an empty source set.
C4_HeldIffSourced ==
  \A m \in Midi :
    /\ (m \in DOMAIN byMidi) <=> (holders[m] # {})
    /\ m \in DOMAIN byMidi => recs[byMidi[m]].sources # {}

\* C4 witness: the last source of a pitch has just released it and its
\* record is gone, while another pitch is still held by two sources.
C4_Witness ==
  /\ lastCall.type = "noteoff"
  /\ lastCall.held
  /\ lastCall.ev.midi \notin DOMAIN byMidi
  /\ \E m \in DOMAIN byMidi : recs[byMidi[m]].sources = Sources

\* C5: every noteOn and noteOff call (also a noteOff for a pitch that is
\* not held) delivers, within the call, exactly one event to every listener
\* subscribed when the call was made, in registration order.
C5_SyncDelivery ==
  lastCall.type # "none" =>
    /\ {lastDeliv[i].to : i \in DOMAIN lastDeliv}
         = {l \in Listeners : lastCall.reg[l] > 0}
    /\ \A i, j \in DOMAIN lastDeliv :
         i < j => lastCall.reg[lastDeliv[i].to] < lastCall.reg[lastDeliv[j].to]
    /\ \A i \in DOMAIN lastDeliv : lastDeliv[i].ev = lastCall.ev

\* C5 witness: a noteOff for a pitch that was not held, made while two
\* listeners were subscribed, L2 before L1.
C5_Witness ==
  /\ lastCall.type = "noteoff"
  /\ ~lastCall.held
  /\ lastCall.reg["L2"] = 1
  /\ lastCall.reg["L1"] = 2
  /\ Len(lastDeliv) = 2

\* C6: a snapshot never changes after construction: later hub calls alter
\* neither its held list nor its byMidi map, the velocity, tOn and sources
\* of every entry included.
C6_SnapshotNeverChanges ==
  snap # NoSnap => SnapView(snap, recs) = snapTaken

\* C7: finalize() returns the recorded pitches by time bucket ascending and
\* by pitch ascending within a bucket, each pitch once, at its first
\* occurrence; events (60,0),(64,5),(67,5),(72,22) with groupMs 20 give
\* <<60,64,67,72>> in whatever order the same-bucket events were pushed.
FirstBucket(m) ==
  SetMin({BucketOf(ccEvents[i].tms, ccStartMs, GROUP_MS) :
            i \in {j \in DOMAIN ccEvents : ccEvents[j].midi = m}})

ExampleEvents ==
  {[midi |-> 60, tms |-> 0], [midi |-> 64, tms |-> 5],
   [midi |-> 67, tms |-> 5], [midi |-> 72, tms |-> 22]}

C7_FinalizeOrder ==
  ccResult # NoResult =>
    LET out == ccResult.out
    IN /\ Range(out) = {ccEvents[i].midi : i \in DOMAIN ccEvents}
       /\ NoDup(out)
       /\ \A i, j \in DOMAIN out :
            i < j => \/ FirstBucket(out[i]) < FirstBucket(out[j])
                     \/ /\ FirstBucket(out[i]) = FirstBucket(out[j])
                        /\ out[i] < out[j]
       /\ (Range(ccEvents) = ExampleEvents /\ ccStartMs = 0)
            => out = <<60, 64, 67, 72>>

\* C7 witness: the example's events, pushed with 67 before 64 and 60 twice,
\* finalized to <<60,64,67,72>>.
C7_Witness ==
  /\ ccResult # NoResult
  /\ ccStartMs = 0
  /\ Len(ccEvents) = 4
  /\ Range(ccEvents) = ExampleEvents
  /\ ccEvents[2].midi = 67
  /\ ccResult.out = <<60, 64, 67, 72>>

\* C8: mergeEditOne returns only currently-held pitches, none twice.
C8_MergeHeldOnce ==
  mOut.called => /\ Range(mOut.out) \subseteq mHeld
                 /\ NoDup(mOut.out)

\* C8 witness: a previous order that repeats a kept pitch, more additions
\* than removed slots, and an addition that is not held.
C8_Witness ==
  /\ mOut.called
  /\ ~NoDup(SeqFilterIn(mPrev, mHeld))
  /\ Len(mAdd) = 2
  /\ mAdd[1] \notin mHeld
  /\ mAdd[2] \in mHeld \ Range(mPrev)
  /\ Len(mOut.out) = 2

\* C9 (as claimed): when exactly one pitch of the previous order is no longer
\* held and exactly one new held pitch is added, the result is the previous
\* order with the removed pitch replaced by the added one at the same index.
GonePitches == Range(mPrev) \ mHeld

NewPitches == (Range(mAdd) \cap mHeld) \ Range(mPrev)

Replaced(old, new) ==
  [i \in DOMAIN mPrev |-> IF mPrev[i] = old THEN new ELSE mPrev[i]]

EditOneCase == Cardinality(GonePitches) = 1 /\ Cardinality(NewPitches) = 1

EditOneResult ==
  mOut.out = Replaced(CHOOSE m \in GonePitches : TRUE,
                      CHOOSE m \in NewPitches : TRUE)

C9_EditOneStable_AsClaimed ==
  (mOut.called /\ EditOneCase) => EditOneResult

\* C9 (amended): the same, for a previous order that repeats no pitch.
C9_EditOneStable ==
  (mOut.called /\ EditOneCase /\ NoDup(mPrev)) => EditOneResult

\* C9 witness: <<60,64,67>>, held {60,65,67}, additions <<65>> gives
\* <<60,65,67>>.
C9_Witness ==
  /\ mOut.called
  /\ mPrev = <<60, 64, 67>>
  /\ mHeld = {60, 65, 67}
  /\ mAdd = <<65>>
  /\ mOut.out = <<60, 65, 67>>

C11_UpDownInterior ==
  (patOut.called /\ patPattern = "updown") =>
    LET n == Len(patBase)
        out == patOut.out
    IN /\ Len(out) = IF n <= 1 THEN n ELSE 2 * n - 2
       /\ \A i \in 1 .. n : out[i] = patBase[i]
       /\ \A k \in 1 .. n - 2 : out[n + k] = patBase[n - k]
       /\ patBase = <<60, 64, 67>> => out = <<60, 64, 67, 64>>

C11_Witness ==
  /\ patOut.called /\ patPattern = "updown"
  /\ patBase = <<60, 64, 67>> /\ patOut.out = <<60, 64, 67, 64>>

\* C12: in every state of the arpeggiator with a non-empty order, the step
\* index is an index of the order: 0 <= stepIdx < order.length.
C12_StepIndexInOrder ==
  arp.order # <<>> => (0 <= arp.stepIdx /\ arp.stepIdx < Len(arp.order))

\* The arpeggiator has stepped through an order of several notes and its
\* index stands on the last of them.
C12_Witness ==
  /\ arp.stepped /\ Len(arp.order) >= 2
  /\ arp.stepIdx = Len(arp.order) - 1

\* C13: whenever the arpeggiator's order is empty, no polling timer is
\* running.  Stated here for the states outside a capture window (while a
\* window is open ensureRunning keeps the timer on an empty order, to
\* finalize the capture): the claim implies this.
C13_EmptyOrderIdle ==
  (arp.order = <<>> /\ ~arp.capTimer) => ~arp.timer

\* C14: after a new target mode is set and frames with one fixed dt (and one
\* morph speed) have been fed until their accumulated time reaches
\* morphSpeed, currentMode = targetMode, the blend progress is 0, and the
\* frame draws exactly one controller, at full opacity.
C14_BlendCompletes ==
  (visRun.set /\ visRun.fixed /\ visRun.acc >= visRun.morph) =>
    /\ visCurrent = visTarget
    /\ visBlend = 0
    /\ visRender = <<Draw(visCurrent, BLEND_ONE)>>

\* C15: after dispose() no timeout callback scheduled by the arpeggiator
\* fires: the capture window's setTimeout callback never runs on a disposed
\* arpeggiator.
C15_NoCallbackAfterDispose ==
  [][~(arp.disposed /\ ArpCaptureTimeout)]_vars

\* C16: noteOff(code) and noteOffMidi(midi) are no-ops when the identity's
\* voice is not down (never created, or already released): the call invokes
\* no release function and changes no voice.
C16_NoteOffNotDownIsNoOp ==
  (\/ poolLast.op = "noteOff" /\ ~IsDown(poolLast.byCode, poolLast.code)
   \/ poolLast.op = "noteOffMidi" /\ ~IsDown(poolLast.byMidi, poolLast.midi)) =>
    /\ poolLog = <<>>
    /\ voicesByCode = poolLast.byCode
    /\ voicesByMidi = poolLast.byMidi

\* C17: code-indexed and MIDI-indexed voices are independent: noteOn/noteOff
\* for a key code leaves every MIDI-indexed voice as it was and invokes no
\* envelope function on one, and noteOnMidi/noteOffMidi leaves every
\* code-indexed voice as it was and invokes no envelope function on one.
C17_NamespacesIndependent ==
  /\ poolLast.op \in {"noteOn", "noteOff"} =>
       /\ voicesByMidi = poolLast.byMidi
       /\ \A i \in DOMAIN poolLog : poolLog[i].ns = "code"
  /\ poolLast.op \in {"noteOnMidi", "noteOffMidi"} =>
       /\ voicesByCode = poolLast.byCode
       /\ \A i \in DOMAIN poolLog : poolLog[i].ns = "midi"

\* a key's voice is released while the MIDI-indexed voice of the same pitch
\* is down, and that voice stays down
C17_Witness ==
  /\ poolLast.op = "noteOff"
  /\ poolLog # <<>>
  /\ IsDown(poolLast.byCode, poolLast.code)
  /\ LET pitch == Get(poolLast.byCode, poolLast.code).midi
     IN IsDown(poolLast.byMidi, pitch) /\ IsDown(voicesByMidi, pitch)

\* C18: per key code the hub events the keyboard source emits alternate
\* noteon, noteoff, starting with noteon, whatever keydown (auto-repeat
\* included), keyup and blur events arrive: a keydown for a key tracked as
\* down emits nothing, and a keyup for a key not tracked as down emits nothing.
C18_EventsAlternatePerKey ==
  /\ \A i \in DOMAIN kbdLog :
       IF kbdLog[i].ev.type = "noteon"
         THEN kbdLog[i].prev \in {"none", "noteoff"}
         ELSE kbdLog[i].prev = "noteon"
  /\ (kbdLast.op = "keydown" /\ kbdLast.wasDown) => kbdLog = <<>>
  /\ (kbdLast.op = "keyup" /\ ~kbdLast.wasDown) => kbdLog = <<>>

\* a keydown arrives for a musical key that is tracked as down
C18_Witness ==
  /\ kbdLast.op = "keydown"
  /\ kbdLast.wasDown
  /\ MidiOfCode(kbdLast.code) # <<>>
  /\ kbdSeen[kbdLast.code] = "noteon"

\* C19: on window blur, document hidden or detach the keyboard source emits
\* a hub noteOff, with its source id, for every pitch it had turned on and
\* not yet off, and afterwards no hub record contains its source id.
C19_PanicOnBlur ==
  kbdLast.op \in {"blur", "hidden", "detach"} =>
    /\ \A m \in kbdLast.notes :
         \E i \in DOMAIN kbdLog : kbdLog[i].ev.type = "noteoff"
                                    /\ kbdLog[i].ev.midi = m /\ kbdLog[i].ev.src = KBD
    /\ \A m \in DOMAIN byMidi : KBD \notin recs[byMidi[m]].sources

\* two keys are released by a blur while the other source still holds a note
C19_Witness ==
  /\ kbdLast.op = "blur"
  /\ Len(kbdLog) >= 2
  /\ kbdLast.notes # {}
  /\ \E m \in DOMAIN byMidi : "ui" \in recs[byMidi[m]].sources

\* C20: when the arpeggiator is turned off while running, the panic issues
\* a gate.noteOff at its time for every note sounding through the gate: every
\* note whose noteOn was issued and whose scheduled noteOff time is not yet
\* reached.
C20_PanicSilencesSounding ==
  (arp.panicAt >= 0 /\ ~arp.disposed) =>
    \A e \in gateNotes :
      e.off > arp.panicAt - PANIC_MS => GateOff(e.midi, arp.panicAt) \in Range(arp.log)

\* C21: for every step triggered at `when` with step duration d, the
\* gate.noteOff time when + dur is at most when + d - 12 ms, for every
\* parameter value in the schema ranges.
C21_GapBeforeNextStep ==
  durOut.called => durOut.dur <= durOut.step - MIN_GAP_MS * 1000

\* C22: update(params) with a partial patch leaves every setting whose keys
\* are absent from the patch as it was: a patch without env.on, env.attack
\* and env.release leaves the live ADSR alone, and a patch without the keys
\* of the filter, LFO or feedback section leaves that section's targets, and
\* with them whether it is enabled or bypassed, alone.
AbsentAll(p, keys) == \A k \in keys : p[k] = Absent

PartialUpdateKeepsAbsent(p) ==
  /\ AbsentAll(p, {"envOn", "attack", "release"}) => liveEnv' = liveEnv
  /\ AbsentAll(p, {"filtOn", "cutoff"}) => chain'.cutoff = chain.cutoff /\ chain'.q = chain.q
  /\ AbsentAll(p, {"lfoOn", "depth"}) => chain'.lfoGain = chain.lfoGain
  /\ AbsentAll(p, {"fbOn", "amount"}) => chain'.fbWet = chain.fbWet /\ chain'.fbGain = chain.fbGain

C22_PartialPatchKeepsAbsent ==
  [][\A p \in PartialPatches : MountUpdate(p) => PartialUpdateKeepsAbsent(p)]_vars

\* C23: whatever ADSR is supplied, the zero one of a disabled envelope
\* section included, every ramp scheduleAttackDecay writes has an attack
\* time of at least 3 ms (the decay begins that long after the attack) and
\* a decay time of at least 3 ms, and every ramp scheduleRelease writes has
\* a release time of at least 10 ms.  A ramp's time is four time constants.
RampMs(e) == (4 * e.tauUs) \div 1000

Ramps(tl) == {i \in DOMAIN tl : tl[i].kind = "target"}

\* the attack ramp of a scheduleAttackDecay: a target at the time of the set
\* before it, towards full gain, followed by the decay ramp
IsAttack(tl, i) ==
  /\ i > 1 /\ i < Len(tl)
  /\ tl[i].kind = "target" /\ tl[i].v = GAIN_ONE
  /\ tl[i - 1].kind = "set" /\ tl[i - 1].t = tl[i].t
  /\ tl[i + 1].kind = "target"

IsRelease(tl, i) == tl[i].kind = "target" /\ tl[i].v = FLOOR

C23_StageFloors ==
  \A i \in DOMAIN envGain :
    /\ IsAttack(envGain, i) =>
         /\ RampMs(envGain[i]) >= 3
         /\ envGain[i + 1].t - envGain[i].t >= 3
         /\ RampMs(envGain[i + 1]) >= 3
    /\ IsRelease(envGain, i) => RampMs(envGain[i]) >= 10

C23_Witness ==
  /\ envAdsr.A = 0 /\ envAdsr.R = 0
  /\ \E i \in DOMAIN envGain : IsAttack(envGain, i) /\ RampMs(envGain[i]) = MIN_A
  /\ \E i \in DOMAIN envGain : IsRelease(envGain, i) /\ RampMs(envGain[i]) = MIN_R

\* C24: after every scheduler tick nextStepTime is at least now + lookahead,
\* and the steps the tick triggered are exactly the step times nextStepTime,
\* nextStepTime + d, ... below now + lookahead, one step length d apart and
\* in increasing order of time, however late the tick comes.
OnTimes(log) == [i \in DOMAIN SelectSeq(log, LAMBDA e : e.type = "on") |->
                   SelectSeq(log, LAMBDA e : e.type = "on")[i].when]

\* the step times from t on that lie below ahead, d apart
StepTimesDue(t, d, ahead) == {u \in t .. (ahead - 1) : (u - t) % d = 0}

C24_TickCatchesUp ==
  setLast.tick =>
    LET ahead == Now + LOOKAHEAD_MS
        d == StepLengthMs(arp.timing)
        due == StepTimesDue(setLast.next, d, ahead)
        ons == OnTimes(arp.log)
    IN /\ arp.nextStepTime >= ahead
       /\ arp.nextStepTime = setLast.next + Cardinality(due) * d
       /\ arp.order # <<>> => Range(ons) = due
       /\ arp.order = <<>> => ons = <<>>
       /\ \A i \in DOMAIN ons : \A j \in DOMAIN ons : i < j => ons[i] <= ons[j]
       /\ arp.pattern # "chord" => \A i \in DOMAIN ons : i > 1 => ons[i] = ons[i - 1] + d

\* a late tick has triggered more than one step
C24_Witness ==
  /\ setLast.tick
  /\ arp.nextStepTime >= Now + LOOKAHEAD_MS
  /\ \E i \in DOMAIN arp.log : \E j \in DOMAIN arp.log :
       /\ arp.log[i].type = "on" /\ arp.log[j].type = "on"
       /\ arp.log[j].when > arp.log[i].when

\* C25: a scheduler tick that comes while a capture window is still open
\* (its captureMs not yet elapsed) does not finalize it: the step order stays
\* as it was; and a tick that comes after the window has elapsed has merged
\* the captured notes still held into the step order.
WindowOpen(a, now) == a.capTimer /\ now < a.capStartMs + CAPTURE_MS

WindowElapsed(a, now) == a.capEvents # <<>> /\ now >= a.capStartMs + CAPTURE_MS

CapturedHeld(a, held) == {a.capEvents[i].midi : i \in DOMAIN a.capEvents} \cap held

C25_FinalizedAfterWindow ==
  [][(arp.timer /\ arp'.timerDue > arp.timerDue /\ ArpTick) =>
       /\ WindowOpen(arp, Now) => arp'.order = arp.order
       /\ WindowElapsed(arp, Now) =>
            CapturedHeld(arp, HeldPitches(byMidi)) \subseteq Range(arp'.order)]_vars

\* the second half alone: the merge on the first tick after the window
C25_MergedAfterWindow ==
  [][(arp.timer /\ arp'.timerDue > arp.timerDue /\ ArpTick) =>
       (WindowElapsed(arp, Now) =>
          CapturedHeld(arp, HeldPitches(byMidi)) \subseteq Range(arp'.order))]_vars

\* C26: after a setParams call whose patch has hold = false the latched set
\* is empty and the step order is the selected pattern applied to the octave
\* expansion of the pitches held in the hub, in ascending order (for
\* 'random', some shuffle of it).
OrderOfHeld(a, held) ==
  {ApplyPattern(ExpandOctaves(SortedSeq(held), a.octaves), a.pattern, rnd) :
     rnd \in (IF a.pattern = "random" THEN RndChoices(MaxShuffle) ELSE {NoRnd})}

C26_HoldOffRebuilds ==
  (setLast.called /\ setLast.patch.hold = <<FALSE>>) =>
    /\ arp.latched = <<>>
    /\ arp.order \in OrderOfHeld(arp, HeldPitches(byMidi))

\* hold goes off with a latch that differs from the keys held
C26_Witness ==
  /\ setLast.called /\ setLast.patch.hold = <<FALSE>>
  /\ setLast.latched # <<>>
  /\ Range(setLast.latched) # HeldPitches(byMidi)
  /\ HeldPitches(byMidi) # {}
  /\ arp.pattern = "updown" /\ Len(arp.order) > 1

\* C27: with pattern 'updown' and an unchanged base of n >= 2 notes, the
\* notes of successive steps are the cycle base[0], ..., base[n-1],
\* base[n-2], ..., base[1], repeated with period 2n - 2.
PingPong(base) == base \o Reverse(SubSeq(base, 2, Len(base) - 1))

C27_UpdownPingPong ==
  stepArp.pattern = "updown" =>
    \A k \in DOMAIN stepPlayed :
      stepPlayed[k] = PingPong(stepBase)[((k - 1) % (2 * Len(stepBase) - 2)) + 1]

\* C28: a setParams call that changes the timing (tempo, sync, division or
\* rate) never moves nextStepTime earlier, and leaves it as it was when it
\* was already at least 1 ms ahead of the clock.
ChangesTiming == setLast.called /\ setLast.patch.timing # Absent /\ setLast.patch.timing[1] # setLast.timing

SwitchesOff == setLast.on /\ setLast.patch.on = <<FALSE>>

NotEarlier ==
  /\ arp.nextStepTime >= setLast.next
  /\ setLast.next >= Now + PANIC_MS => arp.nextStepTime = setLast.next

\* as stated, for every call that changes the timing
C28_RetimeNeverEarlier == ChangesTiming => NotEarlier

\* for the calls that do not also switch a running arpeggiator off
C28_RetimeNeverEarlierUnlessOff == (ChangesTiming /\ ~SwitchesOff) => NotEarlier

\* the timing changes while the next step is scheduled ahead of the clock
C28_Witness ==
  /\ ChangesTiming /\ ~SwitchesOff
  /\ arp.on /\ arp.timer /\ arp.order # <<>>
  /\ setLast.next > Now + PANIC_MS
  /\ arp.nextStepTime = setLast.next

\* C29: with the arpeggiator off, after a focus-loss panic (window blur,
\* document hidden, or Escape) none of the code-indexed voices the
\* passthrough started is down.
AfterPanic ==
  \/ kbdLast.op \in {"blur", "hidden"}
  \/ kbdLast.op = "keydown" /\ kbdLast.code = "Escape"

C29_PanicReleasesCodeVoices ==
  (AfterPanic /\ ~arpEnabled) => \A i \in DOMAIN voicesByCode : ~voicesByCode[i].down

\* C30: a code-indexed voice started by direct play is released when its key
\* is released, also when the arpeggiator was switched on in between: after
\* the keyup of a key the source tracked as down, its voice is not down.
C30_ReleasedOnKeyUp ==
  (kbdLast.op = "keyup" /\ kbdLast.wasDown) => ~IsDown(voicesByCode, kbdLast.code)

\* C31: the noteOff the keyboard source emits for a key carries the MIDI
\* number of the noteOn it emitted when that key was pressed, also when the
\* octave offset changed while the key was held.
C31_OffCarriesOnPitch ==
  \A i \in DOMAIN kbdLog :
    kbdLog[i].ev.type = "noteoff" =>
      kbdLog[i].ev.midi = kbdOnMidi[kbdLog[i].ev.code]

\* a key is released at another octave offset than it was pressed at
C31_Witness ==
  /\ kbdLast.op = "keyup" /\ kbdLast.wasDown
  /\ Len(kbdLog) = 1 /\ kbdLog[1].ev.type = "noteoff"
  /\ kbdLog[1].ev.code = kbdLast.code
  /\ kbdLog[1].ev.midi # MidiOfCode(kbdLast.code)[1]

\* C33: a pitch stays in the hub's held set as long as a key that produced
\* it is still down, also when two keys produced the same MIDI number at
\* different octave offsets and one of them is released.
C33_HeldWhileAKeyIsDown ==
  \A i \in DOMAIN codeToMidiDown :
    /\ codeToMidiDown[i].midi \in DOMAIN byMidi
    /\ KBD \in recs[byMidi[codeToMidiDown[i].midi]].sources

\* C32: with the arpeggiator on in non-hold mode and its timers firing,
\* every pitch held in the hub is eventually in the step order, unless it is
\* released first.
C32_HeldReachesOrder ==
  \A m \in Midi :
    (m \in HeldPitches(byMidi)) ~>
      (m \notin HeldPitches(byMidi) \/ m \in Range(arp.order))

\* C34: in non-hold mode every pitch of the step order is a pitch held in the
\* hub, raised by 12 k semitones for some k in 0 .. octaves - 1.
FromHeld(m, held, octaves) ==
  \E k \in 0 .. Max2(1, octaves) - 1 : m - 12 * k \in held

C34_OrderFromHeld ==
  ~arp.hold =>
    \A i \in DOMAIN arp.order :
      FromHeld(arp.order[i], HeldPitches(byMidi), arp.octaves)

\* a window that captured 60, released since, is finalized with 64 held and
\* two octaves
C34_Witness ==
  /\ ~arp.hold /\ arp.octaves = 2 /\ arp.stepped
  /\ HeldPitches(byMidi) = {64}
  /\ Range(arp.order) = {64, 76}
  /\ \E i \in DOMAIN arp.capEvents : arp.capEvents[i].midi = 60

\* C35: at the end of every frame the blend progress is 0 whenever the
\* current mode equals the target mode.
C35_NoBlendAtTarget == visCurrent = visTarget => visBlend = 0

\* C36: in every frame each mode controller receives at most one update
\* call.
UpdateCalls(c) == Cardinality({i \in DOMAIN visUpdates : visUpdates[i] = c})

C36_OneUpdatePerFrame == \A c \in Modes : UpdateCalls(c) <= 1

\* C37: every gate.noteOn(m, when) the arpeggiator issues is followed, before
\* the noteOn of any later step, by a gate.noteOff(m, t) with t > when.
OffInSameStep(log, i) ==
  \E j \in DOMAIN log :
    /\ j > i
    /\ log[j].type = "off" /\ log[j].midi = log[i].midi
    /\ log[j].when > log[i].when
    /\ \A k \in i .. j : log[k].type = "on" => log[k].when = log[i].when

C37_OnHasLaterOff ==
  \A i \in DOMAIN arp.log : arp.log[i].type = "on" => OffInSameStep(arp.log, i)

\* a tick that catches up two chord steps of two notes each
C37_Witness ==
  /\ arp.pattern = "chord"
  /\ Len(arp.order) >= 2
  /\ \E i, j \in DOMAIN arp.log :
       /\ arp.log[i].type = "on" /\ arp.log[j].type = "on"
       /\ arp.log[i].when < arp.log[j].when

\* C38: in non-hold mode a tick that finalizes the capture again, with no hub
\* event since the tick that finalized it before, leaves the step order as
\* it was, for the patterns up, down, updown and chord.
C38_RefinalizeKeepsOrder == againLast.again => arp.order = againLast.before

\* the same for every pattern but 'down'
C38_RefinalizeKeepsOrderNotDown ==
  (againLast.again /\ arp.pattern # "down") => arp.order = againLast.before

\* C39: every gate.noteOn the scheduler issues carries a time that is not
\* earlier than the clock's time at the call.
C39_OnNotInPast ==
  \A i \in DOMAIN arp.log : arp.log[i].type = "on" => arp.log[i].when >= Now

\* C40: a scheduler tick's loop ends after at most
\* ceil((now + lookahead - nextStepTime) / stepDuration) steps, and after
\* none when nextStepTime is not before now + lookahead, for the schema's
\* parameters.
C40_CatchUpBounded ==
  loopOut.called =>
    LET span == loopIn.late * 1000 + LOOKAHEAD_US
    IN IF span <= 0 THEN loopOut.steps = 0
       ELSE loopOut.steps <= CeilDiv(span, StepLengthUs(loopIn))

\* a late tick at the shortest step length catches up more than ten steps
C40_Witness ==
  /\ loopOut.called
  /\ loopIn.sync /\ loopIn.bpm = 240 /\ loopIn.div = 32
  /\ loopIn.late = SetMax(Lates)
  /\ loopOut.steps > 10

====
